---- MODULE Spec2Model ----
(***************************************************************************)
(* Projeto-CAM: the per-camera capture-and-decision loop (CameraWorker),   *)
(* its recording state machine, the motion detector's static background,   *)
(* the shared frame buffer and the HTTP commands that act on a worker.     *)
(*                                                                         *)
(* One worker thread "w" runs CameraWorker.run on the OpenCV capture path  *)
(* (use_vlc = False).  The threads in Handlers run the Flask routes of     *)
(* app/routes.py; the threads in Viewers are consumers of                  *)
(* get_latest_frame (app/video_stream.py).  Thread "m" is the thread that  *)
(* calls CameraWorker.release() when the server shuts down.  A             *)
(* `with lock:` block that calls nothing which takes a lock is one step,   *)
(* guarded by the lock being free; a block that calls                      *)
(* start_recording_logic holds the lock over several steps.                *)
(*                                                                         *)
(* Time: the clock `now` counts ticks of SecondsPerTick seconds; the       *)
(* durations of the code are compared in seconds.                          *)
(*                                                                         *)
(* Frames: a numpy array is an object of `heap`, known by its reference;   *)
(* variables hold references, so sharing and copying are told apart.       *)
(*                                                                         *)
(* Specifications: Spec (worker, commands, shutdown, clock), SpecFrames    *)
(* (worker and frame consumers), SpecLoop (the worker loop, scheduled      *)
(* fairly).                                                                *)
(***************************************************************************)
EXTENDS Integers, FiniteSets, Sequences, TLC

\* ------------------------------------------------------------------ bounds
\* seconds per clock tick
SecondsPerTick == 6
\* first clock reading (time.time() is far from the initial 0 timestamps)
StartTime == 2
\* number of ticks the clock may advance
Horizon == 1
\* history counter cap: "more than one" VideoWriter alive
MaxLive == 2

\* inferences with detections followed in the statistics
MaxInferences == 11
\* frames followed into the encoder
MaxEncoded == 2
\* calls of the detector followed one after the other
MaxCalls == 3
\* calls of video_writer.write followed one after the other
MaxWrites == 3

MaxTime == StartTime + Horizon

\* ------------------------------------------------------- program constants
\* app/config.py
MOTION_COOLDOWN == 5
MIN_CONTOUR_AREA == 500
\* threshold of cv2.threshold(diff_frame, 30, ...)
DIFF_THRESHOLD == 30
\* time.sleep(5) of the reconnect branch
RECONNECT_SLEEP == 5
\* time.sleep(1) after a failed read
READ_RETRY_SLEEP == 1
\* the number of inferences explored statement by statement
MaxCounted == 4
\* event_logger.MAX_EVENTS
MAX_EVENTS == 10000
\* the number of log_event calls explored
MaxLogged == 4
NoEvent == [type |-> "none", n |-> 0]
IdleCaller == [at |-> "idle", ev |-> NoEvent, local |-> << >>, then |-> "none", failed |-> FALSE]
\* time.sleep(0.1) of gerar_frames, in milliseconds
POLL_SLEEP_MS == 100

\* detection_interval = 0.5 seconds, as the fraction DET_INTERVAL_NUM / DET_INTERVAL_DEN
DET_INTERVAL_NUM == 1
DET_INTERVAL_DEN == 2

\* ---------------------------------------------------------------- threads
Handlers == {"h1"}
\* the threads that pull frames (gerar_frames)
Viewers == {"v1"}
ViewerSeq == <<"v1">>
Threads == {"w", "m"} \cup Handlers \cup Viewers
\* the threads that call log_event: the worker and the request handlers
LogCallers == {"w"} \cup Handlers
FREE == "free"
\* the threads of the lock discipline: worker, shutdown, two request
\* handlers, two stream pullers
LockHandlers == {"h1", "h2"}
LockPullers == {"v1", "v2"}
LockThreads == {"w", "m"} \cup LockHandlers \cup LockPullers

\* None of an integer-valued field
None == -1

\* ------------------------------------------------------------------ frames
\* A captured BGR frame is abstracted to the grey level of the one region
\* of the scene that can change; the region covers RegionArea pixels.
RegionArea == MIN_CONTOUR_AREA
\* grey levels of that region
Dark == 0
Bright == 200
Frames == {Dark, Bright}

ObjIds == 1 .. (3 + Cardinality(Viewers))
NoRef == 0
FreeCell == [kind |-> "free", marks |-> {}]

\* AUTO_RECORD_ON_OBJECTS of app/config.py with an allow-list configured
\* (as shipped it is None, which leaves the automatic object recording dead)
AUTO_RECORD_ON_OBJECTS == {"person"}
\* what one inference may return: detected_objects, as the list of classes
Detections == {<< >>, <<"car">>, <<"person">>}
\* the same for the statistics, where the number of objects counts
StatsDetections == {<< >>, <<"car">>, <<"person", "person">>}
\* len(self.last_detections) > 10
LAST_DETECTIONS_MAX == 10
\* self.last_detections[-5:]
STATS_TAIL == 5
NoStats == [op |-> "none"]

\* ---------------------------------------------------- camera configuration
\* the cam_id of an add_camera, remove_camera or update_camera call
ConfigIds == {"webcam", "cam1"}
\* the request threads that call camera_manager
ConfigCallers == {"h1", "h2"}
\* the number of camera_manager calls explored
MaxConfigCalls == 3
\* a dict of cameras with no key
EmptyConfig == [c \in {} |-> "none"]
\* default_config of load_cameras_config
DefaultConfig == [c \in {"webcam"} |-> "Webcam"]
IdleConfigCaller == [at |-> "idle", op |-> "none", id |-> "none", local |-> EmptyConfig]

\* --------------------------------------------------------------- registry
\* the keys of CAMERA_SOURCES, with the commented example enabled
CAMERA_SOURCES == {"webcam", "corredor"}
\* the cam_id of a request: a configured camera or any other string
RequestIds == CAMERA_SOURCES \cup {"unknown"}
\* the threads that look a camera up: request handlers and stream pullers
RegThreads == LockHandlers \cup LockPullers
LockNames == {"state", "frame", "stats", "events"}

VARIABLES
    \* ---- CameraWorker fields
    cap_open,                   \* self.cap.isOpened()
    output_frame,               \* reference to the published frame, NoRef = None
    is_recording,
    video_writer,               \* {} = None, {[opened]} = a VideoWriter
    motion_detection_enabled,
    static_background,          \* None or a blurred grey frame
    last_motion_time,
    object_detection_enabled,
    object_detector,            \* FALSE = None
    last_detection_time,
    last_detections,            \* the ring of the latest detection records
    total_detections,
    detection_counts,           \* dict: class name -> count
    last_detection_timestamp,
    state_lock,                 \* holder of self.state_lock, or FREE
    frame_lock,                 \* holder of self.frame_lock, or FREE
    detection_stats_lock,       \* holder of self.detection_stats_lock, or FREE
    events_lock,                \* holder of event_logger.events_lock, or FREE
    \* ---- module state
    now,                        \* time.time()
    heap,                       \* frame objects (numpy arrays) by reference
    g_cameras,                  \* the registry: the cam_ids inserted
    flask_up,                   \* app.run() has been called: requests are served
    reg_pc,                     \* each request thread: where it is with the registry
    \* ---- control state of the threads
    pc,                         \* position of each thread
    rpc,                        \* where start_recording_logic returns to
    pending,                    \* lock operations each thread still has to do
                                \* in the region of code it is running
    \* ---- locals of CameraWorker.run
    frame_original,
    frame_processado,           \* reference; also error_frame in the failure branches
    motion_detected_this_frame,
    current_time,
    detected_objects,           \* detections of the inference, up to the recording decision
    wake_at,                    \* second at which the time.sleep in progress ends
    \* ---- locals / results of the handlers
    h_frame,                    \* frame returned by get_latest_frame to each viewer
    poll_wait,                  \* milliseconds of the time.sleep each viewer is in
    h_ret,                      \* response in flight of each handler, with what
                                \* the call found (found_recording) for the record
    stats_ret,                  \* result of get_detection_stats, NoStats = none
    \* ---- history (not program state)
    live_writers,               \* VideoWriter objects created and not yet released
    rec_cause,                  \* what started the current recording
    src_ever_open,              \* the capture has been open at some point
    det_history,                \* every record ever appended to last_detections
    calls,                      \* the calls of object_detector.detect: when, and whether it raised
    write_log,                  \* the calls of video_writer.write: whether each raised cv2.error
    ev_pc,                      \* each caller of log_event: where it is, the event, the list it loaded
    events_file,                \* logs/events_log.json: the sequence of events saved
    emitted,                    \* the recording events passed to log_event, in order
    acked,                      \* the events for which log_event returned True
    ev_count,                   \* number of events created so far
    k_pc,                       \* the worker inside its detection_stats_lock region: where, and the objects left to count
    cfg_file,                   \* cameras_config.json: whether it exists, and the cameras in it
    cfg_pc,                     \* each caller of camera_manager: where it is, its call, the dict it loaded
    cfg_done,                   \* the calls that reported success, in the order of their saves
    cfg_calls,                  \* number of calls made so far
    cfg_read_failed,            \* some read of the file has failed
    reg_log,                    \* the registry operations made, each with the locks
                                \* its thread held
    raw_ref,                    \* frame_original as a reference into the heap
    encoded,                    \* the frames passed to video_writer.write, as
                                \* they were when written
    frame_due                   \* the iteration in progress read its frame while
                                \* recording with an open encoder, the recording
                                \* has not been stopped since, and the frame has
                                \* not been passed to video_writer.write

detectionStats == << last_detections, total_detections, detection_counts,
                    last_detection_timestamp >>
workerFields == << cap_open, output_frame, is_recording, video_writer,
                   motion_detection_enabled, static_background, last_motion_time,
                   object_detection_enabled, object_detector, last_detection_time >>
locks == << state_lock, frame_lock, detection_stats_lock, events_lock >>
workerLocals == << frame_original, frame_processado, motion_detected_this_frame,
                   current_time, detected_objects, wake_at >>
handlerLocals == << h_frame, poll_wait, h_ret, stats_ret >>
registry == << g_cameras, flask_up, reg_pc, reg_log >>
eventLog == << ev_pc, events_file, emitted, acked, ev_count, k_pc >>
cameraConfig == << cfg_file, cfg_pc, cfg_done, cfg_calls, cfg_read_failed >>
history == << live_writers, rec_cause, src_ever_open, det_history, calls, write_log,
             raw_ref, encoded, frame_due >>
vars == << workerFields, detectionStats, locks, now, heap, pc, rpc, pending,
           workerLocals, handlerLocals, history, registry, eventLog,
           cameraConfig >>

\* ----------------------------------------------------------- frame objects
\* the references held, in a fixed order of the variables that hold them
RefSeq(of, fp, hf) == << of, fp >> \o [i \in 1 .. Len(ViewerSeq) |-> hf[ViewerSeq[i]]]

LiveRefs(of, fp, hf) == {RefSeq(of, fp, hf)[k] : k \in 1 .. Len(RefSeq(of, fp, hf))} \ {NoRef}

\* a reference no variable holds: what numpy allocates for a new array
NewRef == CHOOSE i \in ObjIds : i \notin LiveRefs(output_frame, frame_processado, h_frame)

\* References carry no meaning beyond identity: after every step the live
\* objects are renumbered in the order of RefSeq and the others are collected.
Rank(seq, k) ==
    IF seq[k] = NoRef THEN NoRef
    ELSE LET first == CHOOSE j \in 1 .. k :
                         /\ seq[j] = seq[k]
                         /\ \A i \in 1 .. (j - 1) : seq[i] # seq[k]
         IN  Cardinality({seq[i] : i \in 1 .. first} \ {NoRef})

Renumbered(seq, H) ==
    [i \in ObjIds |->
        IF \E k \in 1 .. Len(seq) : Rank(seq, k) = i
        THEN H[seq[CHOOSE k \in 1 .. Len(seq) : Rank(seq, k) = i]]
        ELSE FreeCell]

\* the references and the heap after a step that leaves them as of, fp, hf, H
Store(of, fp, hf, H) ==
    /\ output_frame' = Rank(RefSeq(of, fp, hf), 1)
    /\ frame_processado' = Rank(RefSeq(of, fp, hf), 2)
    /\ h_frame' = [v \in Viewers |->
                     Rank(RefSeq(of, fp, hf),
                          2 + CHOOSE i \in 1 .. Len(ViewerSeq) : ViewerSeq[i] = v)]
    /\ heap' = Renumbered(RefSeq(of, fp, hf), H)

create_no_camera_frame == [kind |-> "nocam", marks |-> {}]

\* frame_original.copy(): the annotated frame starts without overlays
CapturedFrame(f) == [kind |-> "camera", marks |-> {}]

\* ndarray.copy(): a new object with the same pixels
NdCopy(H, ref) == H[ref]

\* cv2.rectangle and the other drawing calls write into the array they are given
Draw(H, ref, mark) == [H EXCEPT ![ref].marks = @ \cup {mark}]

\* the marks a frame can carry: overlays drawn by the worker (motion
\* rectangles, detection boxes) and whatever a consumer writes into its copy
OVERLAY == "overlay"
SCRIBBLE == "viewer"

\* --------------------------------------------------------- motion detector
Abs(x) == IF x < 0 THEN -x ELSE x

\* cvtColor + GaussianBlur: the region is uniform, so its grey level is kept
GrayBlur(f) == f

\* absdiff, threshold at 30, findContours: the areas of the external contours
ContourAreas(bg, gray) ==
    IF Abs(bg - gray) > DIFF_THRESHOLD THEN {RegionArea} ELSE {}

\* the loop over the contours: small ones are skipped, any other sets the flag
MotionInFrame(bg, gray) ==
    \E area \in ContourAreas(bg, gray) : ~(area < MIN_CONTOUR_AREA)

\* ------------------------------------------------------------------ timers
\* faulty variant: the recording stops at the first frame without motion
CooldownExpired_NoWait(t, last) == (t - last) * SecondsPerTick >= 0

\* tempo_sem_movimento > MOTION_COOLDOWN
CooldownExpired(t, last) == (t - last) * SecondsPerTick > MOTION_COOLDOWN

\* current_time - self.last_detection_time >= self.detection_interval
DetectionDue(t, last) ==
    (t - last) * SecondsPerTick * DET_INTERVAL_DEN >= DET_INTERVAL_NUM

\* time.sleep(secs) begun at clock reading t ends no earlier than this second
SleepEnd(t, secs) == t * SecondsPerTick + secs

\* a time.sleep can have returned when the clock reads t: the tick t lasts
\* up to second (t + 1) * SecondsPerTick
SleepOver(t, wake) == (t + 1) * SecondsPerTick > wake

\* faulty variant: any detection at all starts the recording
AnyAllowListed_any(dets) ==
    dets # << >>

\* any(cls in AUTO_RECORD_ON_OBJECTS for cls in detected_classes)
AnyAllowListed(dets) ==
    \E i \in 1 .. Len(dets) : dets[i] \in AUTO_RECORD_ON_OBJECTS

\* -------------------------------------------------------------------- Init
Init ==
    /\ cap_open \in BOOLEAN
    /\ output_frame = NoRef
    /\ is_recording = FALSE
    /\ video_writer = {}
    /\ motion_detection_enabled = FALSE
    /\ static_background = None
    /\ last_motion_time = 0
    /\ object_detection_enabled = FALSE
    /\ object_detector = FALSE
    /\ last_detection_time = 0
    /\ state_lock = FREE
    /\ frame_lock = FREE
    /\ detection_stats_lock = FREE
    /\ events_lock = FREE
    /\ pending = [t \in LockThreads |-> << >>]
    /\ now = StartTime
    /\ heap = [i \in ObjIds |-> FreeCell]
    /\ pc = [t \in Threads |-> IF t = "w" THEN "top"
                              ELSE IF t = "m" THEN "serving"
                              ELSE IF t \in Viewers THEN "closed" ELSE "idle"]
    /\ rpc = [t \in Threads |-> "none"]
    /\ frame_original = None
    /\ frame_processado = NoRef
    /\ motion_detected_this_frame = FALSE
    /\ current_time = 0
    /\ detected_objects = << >>
    /\ wake_at = 0
    /\ h_frame = [v \in Viewers |-> NoRef]
    /\ poll_wait = [v \in Viewers |-> 0]
    /\ h_ret = [h \in Handlers |-> [op |-> "none"]]
    /\ live_writers = 0
    /\ rec_cause = "none"
    /\ src_ever_open = cap_open
    /\ last_detections = << >>
    /\ total_detections = 0
    /\ detection_counts = [c \in {} |-> 0]
    /\ last_detection_timestamp = 0
    /\ stats_ret = NoStats
    /\ det_history = << >>
    /\ calls = << >>
    /\ write_log = << >>
    /\ g_cameras = {}
    /\ flask_up = FALSE
    /\ reg_pc = [t \in RegThreads |-> [at |-> "idle"]]
    /\ reg_log = {}
    /\ ev_pc = [t \in LogCallers |-> IdleCaller]
    /\ events_file = << >>
    /\ emitted = << >>
    /\ acked = {}
    /\ ev_count = 0
    /\ k_pc = [at |-> "idle", todo |-> << >>]
    /\ cfg_file = [exists |-> FALSE, cams |-> EmptyConfig]
    /\ cfg_pc = [t \in ConfigCallers |-> IdleConfigCaller]
    /\ cfg_done = << >>
    /\ cfg_calls = 0
    /\ cfg_read_failed = FALSE
    /\ frame_due = FALSE
    /\ raw_ref = NoRef
    /\ encoded = << >>

\* ------------------------------------------------- recording state machine
\* faulty variant: the encoder is neither released nor forgotten
stop_recording_logic_keeps_writer ==
    IF ~is_recording
    THEN UNCHANGED << is_recording, video_writer, live_writers, rec_cause, frame_due >>
    ELSE /\ is_recording' = FALSE
         /\ rec_cause' = "none"
         /\ frame_due' = FALSE
         /\ UNCHANGED << video_writer, live_writers >>

\* faulty variant: the guard is inverted (`if self.is_recording: return`)
stop_recording_logic_inverted ==
    IF is_recording
    THEN UNCHANGED << is_recording, video_writer, live_writers, rec_cause, frame_due >>
    ELSE /\ is_recording' = FALSE
         /\ rec_cause' = "none"
         /\ frame_due' = FALSE
         /\ IF video_writer # {}
            THEN /\ video_writer' = {}
                 /\ live_writers' = live_writers - 1
            ELSE UNCHANGED << video_writer, live_writers >>

\* stop_recording_logic(); the caller holds state_lock
stop_recording_logic ==
    IF ~is_recording
    THEN UNCHANGED << is_recording, video_writer, live_writers, rec_cause, frame_due >>
    ELSE /\ is_recording' = FALSE
         /\ rec_cause' = "none"
         /\ frame_due' = FALSE
         /\ IF video_writer # {}
            THEN /\ video_writer' = {}
                 /\ live_writers' = live_writers - 1
            ELSE UNCHANGED << video_writer, live_writers >>

\* faulty variant: no `if self.is_recording: return`
start_recording_logic_unguarded(t, ret, cause) ==
    /\ is_recording' = TRUE
    /\ rec_cause' = cause
    /\ pc' = [pc EXCEPT ![t] = "srl_lock"]
    /\ rpc' = [rpc EXCEPT ![t] = ret]

\* start_recording_logic(), up to its call of get_latest_frame; the caller t
\* holds state_lock and continues at ret when the function returns
start_recording_logic(t, ret, cause) ==
    IF is_recording
    THEN /\ pc' = [pc EXCEPT ![t] = ret]
         /\ UNCHANGED << is_recording, rec_cause, rpc >>
    ELSE /\ is_recording' = TRUE
         /\ rec_cause' = cause
         /\ pc' = [pc EXCEPT ![t] = "srl_lock"]
         /\ rpc' = [rpc EXCEPT ![t] = ret]

\* self.video_writer = cv2.VideoWriter(nome_arquivo, ...): the object exists
\* whether or not the file could be opened; then the function returns
OpenVideoWriter(t) ==
    /\ \E opened \in BOOLEAN :
          video_writer' = {[opened |-> opened]}
    /\ live_writers' = IF live_writers < MaxLive THEN live_writers + 1 ELSE live_writers
    /\ pc' = [pc EXCEPT ![t] = rpc[t]]
    /\ rpc' = [rpc EXCEPT ![t] = "none"]

\* get_latest_frame() called by start_recording_logic: `with self.frame_lock`
SRL_AcquireFrameLock(t) ==
    /\ pc[t] = "srl_lock"
    /\ frame_lock = FREE
    /\ frame_lock' = t
    /\ pc' = [pc EXCEPT ![t] = "srl_copy"]
    /\ UNCHANGED << cap_open, output_frame, is_recording, video_writer,
                    motion_detection_enabled, static_background,
                    last_motion_time, object_detection_enabled, object_detector,
                    last_detection_time, state_lock, now, heap, rpc,
                    frame_original, frame_processado, motion_detected_this_frame,
                    current_time, detected_objects, wake_at, h_frame, poll_wait,
                    h_ret, live_writers, rec_cause, src_ever_open,
                    last_detections, total_detections, detection_counts,
                    last_detection_timestamp, stats_ret, det_history,
                    detection_stats_lock, events_lock, pending, frame_due,
                    raw_ref, encoded, calls, write_log, g_cameras, flask_up,
                    reg_pc, reg_log, ev_pc, events_file, emitted, acked,
                    ev_count, k_pc, cfg_file, cfg_pc, cfg_done, cfg_calls,
                    cfg_read_failed >>

\* ... the copy is used for its shape only; None sends the caller to _read_frame
SRL_GetLatestFrame(t) ==
    /\ pc[t] = "srl_copy"
    /\ frame_lock' = FREE
    /\ IF output_frame = NoRef
       THEN /\ pc' = [pc EXCEPT ![t] = "srl_read"]
            /\ UNCHANGED << video_writer, live_writers, rpc >>
       ELSE OpenVideoWriter(t)
    /\ UNCHANGED << cap_open, output_frame, is_recording,
                    motion_detection_enabled, static_background,
                    last_motion_time, object_detection_enabled, object_detector,
                    last_detection_time, state_lock, now, heap, frame_original,
                    frame_processado, motion_detected_this_frame, current_time,
                    detected_objects, wake_at, h_frame, poll_wait, h_ret,
                    rec_cause, src_ever_open, last_detections, total_detections,
                    detection_counts, last_detection_timestamp, stats_ret,
                    det_history, detection_stats_lock, events_lock, pending,
                    frame_due, raw_ref, encoded, calls, write_log, g_cameras,
                    flask_up, reg_pc, reg_log, ev_pc, events_file, emitted,
                    acked, ev_count, k_pc, cfg_file, cfg_pc, cfg_done, cfg_calls,
                    cfg_read_failed >>

\* frame = self._read_frame(); None aborts the recording
SRL_ReadFrame(t) ==
    /\ pc[t] = "srl_read"
    /\ \E got \in (IF cap_open THEN BOOLEAN ELSE {FALSE}) :
          IF got
          THEN /\ OpenVideoWriter(t)
               /\ UNCHANGED << is_recording, rec_cause >>
          ELSE /\ is_recording' = FALSE
               /\ rec_cause' = "none"
               /\ pc' = [pc EXCEPT ![t] = rpc[t]]
               /\ rpc' = [rpc EXCEPT ![t] = "none"]
               /\ UNCHANGED << video_writer, live_writers >>
    /\ UNCHANGED << cap_open, output_frame, motion_detection_enabled,
                    static_background, last_motion_time,
                    object_detection_enabled, object_detector,
                    last_detection_time, state_lock, frame_lock, now, heap,
                    frame_original, frame_processado, motion_detected_this_frame,
                    current_time, detected_objects, wake_at, h_frame, poll_wait,
                    h_ret, src_ever_open, last_detections, total_detections,
                    detection_counts, last_detection_timestamp, stats_ret,
                    det_history, detection_stats_lock, events_lock, pending,
                    frame_due, raw_ref, encoded, calls, write_log, g_cameras,
                    flask_up, reg_pc, reg_log, ev_pc, events_file, emitted,
                    acked, ev_count, k_pc, cfg_file, cfg_pc, cfg_done, cfg_calls,
                    cfg_read_failed >>

\* ------------------------------------------------------- CameraWorker.run
\* faulty variant: the exception of the inference call leaves run()
OnInferenceError_propagates == "dead"

\* where the loop goes after an exception of the inference call (except Exception)
OnInferenceError == "write"

\* where the loop goes after cv2.error of video_writer.write (except cv2.error: pass)
OnWriteError == "pub"

\* top of the loop: the isOpened check and self._read_frame()
W_Begin ==
    /\ pc["w"] = "top"
    /\ \E r \in (IF cap_open THEN Frames \cup {None} ELSE {None}) :
          /\ IF r = None
             THEN /\ Store(output_frame, NewRef, h_frame,
                           [heap EXCEPT ![NewRef] = create_no_camera_frame])
                  /\ pc' = [pc EXCEPT !["w"] = IF cap_open THEN "rf_pub" ELSE "nocam_pub"]
                  /\ UNCHANGED << frame_original >>
             ELSE /\ frame_original' = r
                  /\ Store(output_frame, NewRef, h_frame,
                           [heap EXCEPT ![NewRef] = CapturedFrame(r)])
                  /\ pc' = [pc EXCEPT !["w"] = "mflag"]
          /\ frame_due' = ( /\ r # None
                            /\ is_recording
                            /\ \E writer \in video_writer : writer.opened )
    /\ motion_detected_this_frame' = FALSE
    /\ UNCHANGED << cap_open, is_recording, video_writer,
                    motion_detection_enabled, static_background,
                    last_motion_time, object_detection_enabled, object_detector,
                    last_detection_time, state_lock, frame_lock, now, rpc,
                    current_time, detected_objects, wake_at, poll_wait, h_ret,
                    live_writers, rec_cause, src_ever_open, last_detections,
                    total_detections, detection_counts, last_detection_timestamp,
                    stats_ret, det_history, detection_stats_lock, events_lock,
                    pending, raw_ref, encoded, calls, write_log, g_cameras,
                    flask_up, reg_pc, reg_log, ev_pc, events_file, emitted,
                    acked, ev_count, k_pc, cfg_file, cfg_pc, cfg_done, cfg_calls,
                    cfg_read_failed >>

\* faulty variant: the placeholder is built but not published
W_PublishNoCamera_skip ==
    /\ pc["w"] = "nocam_pub"
    /\ frame_lock = FREE
    /\ Store(output_frame, NoRef, h_frame, heap)
    /\ wake_at' = SleepEnd(now, RECONNECT_SLEEP)
    /\ pc' = [pc EXCEPT !["w"] = "sleep5"]
    /\ UNCHANGED << cap_open, is_recording, video_writer,
                    motion_detection_enabled, static_background,
                    last_motion_time, object_detection_enabled, object_detector,
                    last_detection_time, state_lock, frame_lock, now, rpc,
                    frame_original, motion_detected_this_frame, current_time,
                    detected_objects, poll_wait, h_ret, live_writers, rec_cause,
                    src_ever_open, last_detections, total_detections,
                    detection_counts, last_detection_timestamp, stats_ret,
                    det_history, detection_stats_lock, events_lock, pending,
                    frame_due, raw_ref, encoded, calls, write_log, g_cameras,
                    flask_up, reg_pc, reg_log, ev_pc, events_file, emitted,
                    acked, ev_count, k_pc, cfg_file, cfg_pc, cfg_done, cfg_calls,
                    cfg_read_failed >>

\* source not open: publish the placeholder, then time.sleep(5)
W_PublishNoCamera ==
    /\ pc["w"] = "nocam_pub"
    /\ frame_lock = FREE
    /\ Store(frame_processado, frame_processado, h_frame, heap)
    /\ wake_at' = SleepEnd(now, RECONNECT_SLEEP)
    /\ pc' = [pc EXCEPT !["w"] = "sleep5"]
    /\ UNCHANGED << cap_open, is_recording, video_writer,
                    motion_detection_enabled, static_background,
                    last_motion_time, object_detection_enabled, object_detector,
                    last_detection_time, state_lock, frame_lock, now, rpc,
                    frame_original, motion_detected_this_frame, current_time,
                    detected_objects, poll_wait, h_ret, live_writers, rec_cause,
                    src_ever_open, last_detections, total_detections,
                    detection_counts, last_detection_timestamp, stats_ret,
                    det_history, detection_stats_lock, events_lock, pending,
                    frame_due, raw_ref, encoded, calls, write_log, g_cameras,
                    flask_up, reg_pc, reg_log, ev_pc, events_file, emitted,
                    acked, ev_count, k_pc, cfg_file, cfg_pc, cfg_done, cfg_calls,
                    cfg_read_failed >>

\* faulty variant: no `continue`, the reopened source is read at once
W_Reopen_reads ==
    /\ pc["w"] = "sleep5"
    /\ SleepOver(now, wake_at)
    /\ \E ok \in BOOLEAN :
          /\ cap_open' = ok
          /\ src_ever_open' = (src_ever_open \/ ok)
          /\ IF ok
             THEN \E r \in Frames :
                     /\ frame_original' = r
                     /\ Store(output_frame, NewRef, h_frame,
                              [heap EXCEPT ![NewRef] = CapturedFrame(r)])
                     /\ pc' = [pc EXCEPT !["w"] = "mflag"]
             ELSE /\ pc' = [pc EXCEPT !["w"] = "top"]
                  /\ UNCHANGED << frame_original, output_frame, frame_processado,
                                  h_frame, heap >>
    /\ wake_at' = 0
    /\ UNCHANGED << is_recording, video_writer, motion_detection_enabled,
                    static_background, last_motion_time,
                    object_detection_enabled, object_detector,
                    last_detection_time, state_lock, frame_lock, now, rpc,
                    motion_detected_this_frame, current_time, detected_objects,
                    poll_wait, h_ret, live_writers, rec_cause, last_detections,
                    total_detections, detection_counts, last_detection_timestamp,
                    stats_ret, det_history, detection_stats_lock, events_lock,
                    pending, frame_due, raw_ref, encoded, calls, write_log,
                    g_cameras, flask_up, reg_pc, reg_log, ev_pc, events_file,
                    emitted, acked, ev_count, k_pc, cfg_file, cfg_pc, cfg_done,
                    cfg_calls, cfg_read_failed >>

\* after the sleep: self.cap = cv2.VideoCapture(self.source); continue
W_Reopen ==
    /\ pc["w"] = "sleep5"
    /\ SleepOver(now, wake_at)
    /\ \E ok \in BOOLEAN :
          /\ cap_open' = ok
          /\ src_ever_open' = (src_ever_open \/ ok)
    /\ wake_at' = 0
    /\ pc' = [pc EXCEPT !["w"] = "top"]
    /\ UNCHANGED << output_frame, is_recording, video_writer,
                    motion_detection_enabled, static_background,
                    last_motion_time, object_detection_enabled, object_detector,
                    last_detection_time, state_lock, frame_lock, now, heap, rpc,
                    frame_original, frame_processado, motion_detected_this_frame,
                    current_time, detected_objects, h_frame, poll_wait, h_ret,
                    live_writers, rec_cause, last_detections, total_detections,
                    detection_counts, last_detection_timestamp, stats_ret,
                    det_history, detection_stats_lock, events_lock, pending,
                    frame_due, raw_ref, encoded, calls, write_log, g_cameras,
                    flask_up, reg_pc, reg_log, ev_pc, events_file, emitted,
                    acked, ev_count, k_pc, cfg_file, cfg_pc, cfg_done, cfg_calls,
                    cfg_read_failed >>

\* read failed: publish the placeholder, time.sleep(1), continue
W_PublishReadFailure ==
    /\ pc["w"] = "rf_pub"
    /\ frame_lock = FREE
    /\ Store(frame_processado, frame_processado, h_frame, heap)
    /\ wake_at' = SleepEnd(now, READ_RETRY_SLEEP)
    /\ pc' = [pc EXCEPT !["w"] = "sleep1"]
    /\ UNCHANGED << cap_open, is_recording, video_writer,
                    motion_detection_enabled, static_background,
                    last_motion_time, object_detection_enabled, object_detector,
                    last_detection_time, state_lock, frame_lock, now, rpc,
                    frame_original, motion_detected_this_frame, current_time,
                    detected_objects, poll_wait, h_ret, live_writers, rec_cause,
                    src_ever_open, last_detections, total_detections,
                    detection_counts, last_detection_timestamp, stats_ret,
                    det_history, detection_stats_lock, events_lock, pending,
                    frame_due, raw_ref, encoded, calls, write_log, g_cameras,
                    flask_up, reg_pc, reg_log, ev_pc, events_file, emitted,
                    acked, ev_count, k_pc, cfg_file, cfg_pc, cfg_done, cfg_calls,
                    cfg_read_failed >>

\* faulty variant: the source is released and opened again before the retry
W_ReadRetry_reopens ==
    /\ pc["w"] = "sleep1"
    /\ SleepOver(now, wake_at)
    /\ \E ok \in BOOLEAN :
          /\ cap_open' = ok
          /\ src_ever_open' = (src_ever_open \/ ok)
    /\ wake_at' = 0
    /\ pc' = [pc EXCEPT !["w"] = "top"]
    /\ UNCHANGED << output_frame, is_recording, video_writer,
                    motion_detection_enabled, static_background,
                    last_motion_time, object_detection_enabled, object_detector,
                    last_detection_time, state_lock, frame_lock, now, heap, rpc,
                    frame_original, frame_processado, motion_detected_this_frame,
                    current_time, detected_objects, h_frame, poll_wait, h_ret,
                    live_writers, rec_cause, last_detections, total_detections,
                    detection_counts, last_detection_timestamp, stats_ret,
                    det_history, detection_stats_lock, events_lock, pending,
                    frame_due, raw_ref, encoded, calls, write_log, g_cameras,
                    flask_up, reg_pc, reg_log, ev_pc, events_file, emitted,
                    acked, ev_count, k_pc, cfg_file, cfg_pc, cfg_done, cfg_calls,
                    cfg_read_failed >>

\* after the sleep: continue
W_ReadRetry ==
    /\ pc["w"] = "sleep1"
    /\ SleepOver(now, wake_at)
    /\ wake_at' = 0
    /\ pc' = [pc EXCEPT !["w"] = "top"]
    /\ UNCHANGED << cap_open, output_frame, is_recording, video_writer,
                    motion_detection_enabled, static_background,
                    last_motion_time, object_detection_enabled, object_detector,
                    last_detection_time, state_lock, frame_lock, now, heap, rpc,
                    frame_original, frame_processado, motion_detected_this_frame,
                    current_time, detected_objects, h_frame, poll_wait, h_ret,
                    live_writers, rec_cause, src_ever_open, last_detections,
                    total_detections, detection_counts, last_detection_timestamp,
                    stats_ret, det_history, detection_stats_lock, events_lock,
                    pending, frame_due, raw_ref, encoded, calls, write_log,
                    g_cameras, flask_up, reg_pc, reg_log, ev_pc, events_file,
                    emitted, acked, ev_count, k_pc, cfg_file, cfg_pc, cfg_done,
                    cfg_calls, cfg_read_failed >>

\* with self.state_lock: motion_is_on = self.motion_detection_enabled
W_ReadMotionFlag ==
    /\ pc["w"] = "mflag"
    /\ state_lock = FREE
    /\ pc' = [pc EXCEPT !["w"] = IF motion_detection_enabled THEN "bg" ELSE "objdet"]
    /\ UNCHANGED << cap_open, output_frame, is_recording, video_writer,
                    motion_detection_enabled, static_background,
                    last_motion_time, object_detection_enabled, object_detector,
                    last_detection_time, state_lock, frame_lock, now, heap, rpc,
                    frame_original, frame_processado, motion_detected_this_frame,
                    current_time, detected_objects, wake_at, h_frame, poll_wait,
                    h_ret, live_writers, rec_cause, src_ever_open,
                    last_detections, total_detections, detection_counts,
                    last_detection_timestamp, stats_ret, det_history,
                    detection_stats_lock, events_lock, pending, frame_due,
                    raw_ref, encoded, calls, write_log, g_cameras, flask_up,
                    reg_pc, reg_log, ev_pc, events_file, emitted, acked,
                    ev_count, k_pc, cfg_file, cfg_pc, cfg_done, cfg_calls,
                    cfg_read_failed >>

\* faulty variant: a running background, replaced by every processed frame
W_Background_running ==
    /\ pc["w"] = "bg"
    /\ state_lock = FREE
    /\ IF static_background = None
       THEN /\ static_background' = GrayBlur(frame_original)
            /\ pc' = [pc EXCEPT !["w"] = "top"]
            /\ frame_original' = None
            /\ Store(output_frame, NoRef, h_frame, heap)
            /\ frame_due' = FALSE
            /\ UNCHANGED << motion_detected_this_frame >>
       ELSE /\ motion_detected_this_frame' =
                    MotionInFrame(static_background, GrayBlur(frame_original))
            /\ static_background' = GrayBlur(frame_original)
            /\ heap' = IF motion_detected_this_frame'
                       THEN Draw(heap, frame_processado, OVERLAY)
                       ELSE heap
            /\ pc' = [pc EXCEPT !["w"] = "motion"]
            /\ UNCHANGED << frame_original, frame_processado, output_frame, h_frame,
                            frame_due >>
    /\ UNCHANGED << cap_open, is_recording, video_writer,
                    motion_detection_enabled, last_motion_time,
                    object_detection_enabled, object_detector,
                    last_detection_time, state_lock, frame_lock, now, rpc,
                    current_time, detected_objects, wake_at, poll_wait, h_ret,
                    live_writers, rec_cause, src_ever_open, last_detections,
                    total_detections, detection_counts, last_detection_timestamp,
                    stats_ret, det_history, detection_stats_lock, events_lock,
                    pending, raw_ref, encoded, calls, write_log, g_cameras,
                    flask_up, reg_pc, reg_log, ev_pc, events_file, emitted,
                    acked, ev_count, k_pc, cfg_file, cfg_pc, cfg_done, cfg_calls,
                    cfg_read_failed >>

\* grey + blur, the background check under state_lock, then the contours
W_Background ==
    /\ pc["w"] = "bg"
    /\ state_lock = FREE
    /\ IF static_background = None
       THEN /\ static_background' = GrayBlur(frame_original)
            /\ pc' = [pc EXCEPT !["w"] = "top"]
            \* continue: the locals of this iteration are dead
            /\ frame_original' = None
            /\ Store(output_frame, NoRef, h_frame, heap)
            /\ frame_due' = FALSE
            /\ UNCHANGED << motion_detected_this_frame >>
       ELSE /\ motion_detected_this_frame' =
                    MotionInFrame(static_background, GrayBlur(frame_original))
            /\ heap' = IF motion_detected_this_frame'
                       THEN Draw(heap, frame_processado, OVERLAY)
                       ELSE heap
            /\ pc' = [pc EXCEPT !["w"] = "motion"]
            /\ UNCHANGED << static_background, frame_original, frame_processado,
                            output_frame, h_frame, frame_due >>
    /\ UNCHANGED << cap_open, is_recording, video_writer,
                    motion_detection_enabled, last_motion_time,
                    object_detection_enabled, object_detector,
                    last_detection_time, state_lock, frame_lock, now, rpc,
                    current_time, detected_objects, wake_at, poll_wait, h_ret,
                    live_writers, rec_cause, src_ever_open, last_detections,
                    total_detections, detection_counts, last_detection_timestamp,
                    stats_ret, det_history, detection_stats_lock, events_lock,
                    pending, raw_ref, encoded, calls, write_log, g_cameras,
                    flask_up, reg_pc, reg_log, ev_pc, events_file, emitted,
                    acked, ev_count, k_pc, cfg_file, cfg_pc, cfg_done, cfg_calls,
                    cfg_read_failed >>

\* with self.state_lock: the automatic recording decision
W_MotionDecide ==
    /\ pc["w"] = "motion"
    /\ state_lock = FREE
    /\ IF motion_detected_this_frame
       THEN /\ last_motion_time' = now
            /\ IF ~is_recording
               THEN /\ state_lock' = "w"
                    /\ start_recording_logic("w", "motion_ret", "motion")
               ELSE /\ pc' = [pc EXCEPT !["w"] = "objdet"]
                    /\ UNCHANGED << state_lock, is_recording, rec_cause, rpc >>
            /\ UNCHANGED << video_writer, live_writers, frame_due >>
       ELSE /\ IF is_recording /\ CooldownExpired(now, last_motion_time)
               THEN stop_recording_logic
               ELSE UNCHANGED << is_recording, video_writer, live_writers, rec_cause, frame_due >>
            /\ pc' = [pc EXCEPT !["w"] = "objdet"]
            /\ UNCHANGED << last_motion_time, state_lock, rpc >>
    /\ UNCHANGED << cap_open, output_frame, motion_detection_enabled,
                    static_background, object_detection_enabled, object_detector,
                    last_detection_time, frame_lock, now, heap, frame_original,
                    frame_processado, motion_detected_this_frame, current_time,
                    detected_objects, wake_at, h_frame, poll_wait, h_ret,
                    src_ever_open, last_detections, total_detections,
                    detection_counts, last_detection_timestamp, stats_ret,
                    det_history, detection_stats_lock, events_lock, pending,
                    raw_ref, encoded, calls, write_log, g_cameras, flask_up,
                    reg_pc, reg_log, ev_pc, events_file, emitted, acked,
                    ev_count, k_pc, cfg_file, cfg_pc, cfg_done, cfg_calls,
                    cfg_read_failed >>

\* start_recording_logic returned to the motion branch: the with block ends
W_MotionRet ==
    /\ pc["w"] = "motion_ret"
    /\ state_lock' = FREE
    /\ pc' = [pc EXCEPT !["w"] = "objdet"]
    /\ UNCHANGED << cap_open, output_frame, is_recording, video_writer,
                    motion_detection_enabled, static_background,
                    last_motion_time, object_detection_enabled, object_detector,
                    last_detection_time, frame_lock, now, heap, rpc,
                    frame_original, frame_processado, motion_detected_this_frame,
                    current_time, detected_objects, wake_at, h_frame, poll_wait,
                    h_ret, live_writers, rec_cause, src_ever_open,
                    last_detections, total_detections, detection_counts,
                    last_detection_timestamp, stats_ret, det_history,
                    detection_stats_lock, events_lock, pending, frame_due,
                    raw_ref, encoded, calls, write_log, g_cameras, flask_up,
                    reg_pc, reg_log, ev_pc, events_file, emitted, acked,
                    ev_count, k_pc, cfg_file, cfg_pc, cfg_done, cfg_calls,
                    cfg_read_failed >>

\* the object detection block, up to `with self.state_lock`
W_ObjectDetection ==
    /\ pc["w"] = "objdet"
    /\ IF object_detection_enabled /\ object_detector
          /\ DetectionDue(now, last_detection_time)
       THEN \E outcome \in Detections \cup {<<"raise">>} :
               IF outcome = <<"raise">>
               THEN /\ pc' = [pc EXCEPT !["w"] = OnInferenceError]
                    /\ UNCHANGED << frame_processado, heap, last_detection_time,
                                    current_time, detected_objects, output_frame, h_frame >>
               ELSE /\ Store(output_frame, NewRef, h_frame,
                          [heap EXCEPT ![NewRef] =
                              IF outcome = << >>
                              THEN NdCopy(heap, frame_processado)
                              ELSE [NdCopy(heap, frame_processado)
                                      EXCEPT !.marks = @ \cup {OVERLAY}]])
                    /\ last_detection_time' = now
                    /\ IF outcome # << >> /\ AUTO_RECORD_ON_OBJECTS # {}
                          /\ AnyAllowListed(outcome)
                       THEN /\ pc' = [pc EXCEPT !["w"] = "obj_lock"]
                            /\ current_time' = now
                            /\ detected_objects' = outcome
                       ELSE /\ pc' = [pc EXCEPT !["w"] = "write"]
                            /\ UNCHANGED << current_time, detected_objects >>
       ELSE /\ pc' = [pc EXCEPT !["w"] = "write"]
            /\ UNCHANGED << frame_processado, heap, last_detection_time, current_time,
                            detected_objects, output_frame, h_frame >>
    /\ UNCHANGED << cap_open, is_recording, video_writer,
                    motion_detection_enabled, static_background,
                    last_motion_time, object_detection_enabled, object_detector,
                    state_lock, frame_lock, now, rpc, frame_original,
                    motion_detected_this_frame, wake_at, poll_wait, h_ret,
                    live_writers, rec_cause, src_ever_open, last_detections,
                    total_detections, detection_counts, last_detection_timestamp,
                    stats_ret, det_history, detection_stats_lock, events_lock,
                    pending, frame_due, raw_ref, encoded, calls, write_log,
                    g_cameras, flask_up, reg_pc, reg_log, ev_pc, events_file,
                    emitted, acked, ev_count, k_pc, cfg_file, cfg_pc, cfg_done,
                    cfg_calls, cfg_read_failed >>

\* faulty variant: the recording test is inverted
W_ObjectRecord_inverted ==
    /\ pc["w"] = "obj_lock"
    /\ state_lock = FREE
    /\ IF is_recording
       THEN /\ state_lock' = "w"
            /\ start_recording_logic("w", "obj_ret", "object")
            /\ UNCHANGED << current_time, detected_objects >>
       ELSE /\ pc' = [pc EXCEPT !["w"] = "write"]
            /\ current_time' = 0
            /\ detected_objects' = << >>
            /\ UNCHANGED << state_lock, is_recording, rec_cause, rpc >>
    /\ UNCHANGED << cap_open, output_frame, video_writer,
                    motion_detection_enabled, static_background,
                    last_motion_time, object_detection_enabled, object_detector,
                    last_detection_time, frame_lock, now, heap, frame_original,
                    frame_processado, motion_detected_this_frame, wake_at,
                    h_frame, poll_wait, h_ret, live_writers, src_ever_open,
                    last_detections, total_detections, detection_counts,
                    last_detection_timestamp, stats_ret, det_history,
                    detection_stats_lock, events_lock, pending, frame_due,
                    raw_ref, encoded, calls, write_log, g_cameras, flask_up,
                    reg_pc, reg_log, ev_pc, events_file, emitted, acked,
                    ev_count, k_pc, cfg_file, cfg_pc, cfg_done, cfg_calls,
                    cfg_read_failed >>

\* with self.state_lock: if not self.is_recording: self.start_recording_logic()
W_ObjectRecord ==
    /\ pc["w"] = "obj_lock"
    /\ state_lock = FREE
    /\ IF ~is_recording
       THEN /\ state_lock' = "w"
            /\ start_recording_logic("w", "obj_ret", "object")
            /\ UNCHANGED << current_time, detected_objects >>
       ELSE /\ pc' = [pc EXCEPT !["w"] = "write"]
            /\ current_time' = 0
            /\ detected_objects' = << >>
            /\ UNCHANGED << state_lock, is_recording, rec_cause, rpc >>
    /\ UNCHANGED << cap_open, output_frame, video_writer,
                    motion_detection_enabled, static_background,
                    last_motion_time, object_detection_enabled, object_detector,
                    last_detection_time, frame_lock, now, heap, frame_original,
                    frame_processado, motion_detected_this_frame, wake_at,
                    h_frame, poll_wait, h_ret, live_writers, src_ever_open,
                    last_detections, total_detections, detection_counts,
                    last_detection_timestamp, stats_ret, det_history,
                    detection_stats_lock, events_lock, pending, frame_due,
                    raw_ref, encoded, calls, write_log, g_cameras, flask_up,
                    reg_pc, reg_log, ev_pc, events_file, emitted, acked,
                    ev_count, k_pc, cfg_file, cfg_pc, cfg_done, cfg_calls,
                    cfg_read_failed >>

\* self.last_motion_time = current_time, then the with block ends
W_ObjectRet ==
    /\ pc["w"] = "obj_ret"
    /\ last_motion_time' = current_time
    /\ current_time' = 0
    /\ detected_objects' = << >>
    /\ state_lock' = FREE
    /\ pc' = [pc EXCEPT !["w"] = "write"]
    /\ UNCHANGED << cap_open, output_frame, is_recording, video_writer,
                    motion_detection_enabled, static_background,
                    object_detection_enabled, object_detector,
                    last_detection_time, frame_lock, now, heap, rpc,
                    frame_original, frame_processado, motion_detected_this_frame,
                    wake_at, h_frame, poll_wait, h_ret, live_writers, rec_cause,
                    src_ever_open, last_detections, total_detections,
                    detection_counts, last_detection_timestamp, stats_ret,
                    det_history, detection_stats_lock, events_lock, pending,
                    frame_due, raw_ref, encoded, calls, write_log, g_cameras,
                    flask_up, reg_pc, reg_log, ev_pc, events_file, emitted,
                    acked, ev_count, k_pc, cfg_file, cfg_pc, cfg_done, cfg_calls,
                    cfg_read_failed >>

\* with self.state_lock: write the raw frame if recording
W_Write ==
    /\ pc["w"] = "write"
    /\ state_lock = FREE
    /\ IF is_recording /\ video_writer # {}
       THEN \E raised \in BOOLEAN :
               /\ pc' = [pc EXCEPT !["w"] = IF raised THEN OnWriteError ELSE "pub"]
               /\ frame_due' = FALSE
       ELSE /\ pc' = [pc EXCEPT !["w"] = "pub"]
            /\ UNCHANGED << frame_due >>
    /\ UNCHANGED << cap_open, output_frame, is_recording, video_writer,
                    motion_detection_enabled, static_background,
                    last_motion_time, object_detection_enabled, object_detector,
                    last_detection_time, state_lock, frame_lock, now, heap, rpc,
                    frame_original, frame_processado, motion_detected_this_frame,
                    current_time, detected_objects, wake_at, h_frame, poll_wait,
                    h_ret, live_writers, rec_cause, src_ever_open,
                    last_detections, total_detections, detection_counts,
                    last_detection_timestamp, stats_ret, det_history,
                    detection_stats_lock, events_lock, pending, raw_ref, encoded,
                    calls, write_log, g_cameras, flask_up, reg_pc, reg_log,
                    ev_pc, events_file, emitted, acked, ev_count, k_pc, cfg_file,
                    cfg_pc, cfg_done, cfg_calls, cfg_read_failed >>

\* with self.frame_lock: self.output_frame = frame_processado
W_Publish ==
    /\ pc["w"] = "pub"
    /\ frame_lock = FREE
    /\ Store(frame_processado, frame_processado, h_frame, heap)
    /\ frame_due' = FALSE
    /\ frame_original' = None
    /\ motion_detected_this_frame' = FALSE
    /\ pc' = [pc EXCEPT !["w"] = "top"]
    /\ UNCHANGED << cap_open, is_recording, video_writer,
                    motion_detection_enabled, static_background,
                    last_motion_time, object_detection_enabled, object_detector,
                    last_detection_time, state_lock, frame_lock, now, rpc,
                    current_time, detected_objects, wake_at, poll_wait, h_ret,
                    live_writers, rec_cause, src_ever_open, last_detections,
                    total_detections, detection_counts, last_detection_timestamp,
                    stats_ret, det_history, detection_stats_lock, events_lock,
                    pending, raw_ref, encoded, calls, write_log, g_cameras,
                    flask_up, reg_pc, reg_log, ev_pc, events_file, emitted,
                    acked, ev_count, k_pc, cfg_file, cfg_pc, cfg_done, cfg_calls,
                    cfg_read_failed >>

\* ------------------------------------------------------------ HTTP routes
\* POST /start_recording: with worker.state_lock: worker.start_recording_logic()
H_StartRecording(h) ==
    /\ pc[h] = "idle"
    /\ pc["m"] = "serving"
    /\ state_lock = FREE
    /\ state_lock' = h
    /\ start_recording_logic(h, "start_ret", "manual")
    /\ h_ret' = [h_ret EXCEPT ![h] = [op |-> "start", found_recording |-> is_recording]]
    /\ UNCHANGED << cap_open, output_frame, video_writer,
                    motion_detection_enabled, static_background,
                    last_motion_time, object_detection_enabled, object_detector,
                    last_detection_time, frame_lock, now, heap, frame_original,
                    frame_processado, motion_detected_this_frame, current_time,
                    detected_objects, wake_at, h_frame, poll_wait, live_writers,
                    src_ever_open, last_detections, total_detections,
                    detection_counts, last_detection_timestamp, stats_ret,
                    det_history, detection_stats_lock, events_lock, pending,
                    frame_due, raw_ref, encoded, calls, write_log, g_cameras,
                    flask_up, reg_pc, reg_log, ev_pc, events_file, emitted,
                    acked, ev_count, k_pc, cfg_file, cfg_pc, cfg_done, cfg_calls,
                    cfg_read_failed >>

\* ... the with block ends and the route returns
H_StartRet(h) ==
    /\ pc[h] = "start_ret"
    /\ state_lock' = FREE
    /\ pc' = [pc EXCEPT ![h] = "ret"]
    /\ UNCHANGED << cap_open, output_frame, is_recording, video_writer,
                    motion_detection_enabled, static_background,
                    last_motion_time, object_detection_enabled, object_detector,
                    last_detection_time, frame_lock, now, heap, rpc,
                    frame_original, frame_processado, motion_detected_this_frame,
                    current_time, detected_objects, wake_at, h_frame, poll_wait,
                    h_ret, live_writers, rec_cause, src_ever_open,
                    last_detections, total_detections, detection_counts,
                    last_detection_timestamp, stats_ret, det_history,
                    detection_stats_lock, events_lock, pending, frame_due,
                    raw_ref, encoded, calls, write_log, g_cameras, flask_up,
                    reg_pc, reg_log, ev_pc, events_file, emitted, acked,
                    ev_count, k_pc, cfg_file, cfg_pc, cfg_done, cfg_calls,
                    cfg_read_failed >>

\* POST /stop_recording: with worker.state_lock: worker.stop_recording_logic()
H_StopRecording(h) ==
    /\ pc[h] = "idle"
    /\ pc["m"] = "serving"
    /\ state_lock = FREE
    /\ stop_recording_logic
    /\ h_ret' = [h_ret EXCEPT ![h] = [op |-> "stop", found_recording |-> is_recording]]
    /\ pc' = [pc EXCEPT ![h] = "ret"]
    /\ UNCHANGED << cap_open, output_frame, motion_detection_enabled,
                    static_background, last_motion_time,
                    object_detection_enabled, object_detector,
                    last_detection_time, state_lock, frame_lock, now, heap, rpc,
                    frame_original, frame_processado, motion_detected_this_frame,
                    current_time, detected_objects, wake_at, h_frame, poll_wait,
                    src_ever_open, last_detections, total_detections,
                    detection_counts, last_detection_timestamp, stats_ret,
                    det_history, detection_stats_lock, events_lock, pending,
                    raw_ref, encoded, calls, write_log, g_cameras, flask_up,
                    reg_pc, reg_log, ev_pc, events_file, emitted, acked,
                    ev_count, k_pc, cfg_file, cfg_pc, cfg_done, cfg_calls,
                    cfg_read_failed >>

\* faulty variant: disarming leaves the recording to the cooldown
H_ToggleMotion_nostop(h) ==
    /\ pc[h] = "idle"
    /\ pc["m"] = "serving"
    /\ state_lock = FREE
    /\ motion_detection_enabled' = ~motion_detection_enabled
    /\ IF motion_detection_enabled'
       THEN static_background' = None
       ELSE UNCHANGED << static_background >>
    /\ h_ret' = [h_ret EXCEPT ![h] = [op |-> "toggle_motion",
                                      enabled |-> motion_detection_enabled',
                                      found_recording |-> is_recording]]
    /\ pc' = [pc EXCEPT ![h] = "ret"]
    /\ UNCHANGED << cap_open, output_frame, is_recording, video_writer,
                    last_motion_time, object_detection_enabled, object_detector,
                    last_detection_time, state_lock, frame_lock, now, heap, rpc,
                    frame_original, frame_processado, motion_detected_this_frame,
                    current_time, detected_objects, wake_at, h_frame, poll_wait,
                    live_writers, rec_cause, src_ever_open, last_detections,
                    total_detections, detection_counts, last_detection_timestamp,
                    stats_ret, det_history, detection_stats_lock, events_lock,
                    pending, frame_due, raw_ref, encoded, calls, write_log,
                    g_cameras, flask_up, reg_pc, reg_log, ev_pc, events_file,
                    emitted, acked, ev_count, k_pc, cfg_file, cfg_pc, cfg_done,
                    cfg_calls, cfg_read_failed >>

\* faulty variant: arming keeps the stored background
H_ToggleMotion_keepbg(h) ==
    /\ pc[h] = "idle"
    /\ pc["m"] = "serving"
    /\ state_lock = FREE
    /\ motion_detection_enabled' = ~motion_detection_enabled
    /\ IF motion_detection_enabled'
       THEN UNCHANGED << is_recording, video_writer, live_writers, rec_cause, frame_due >>
       ELSE IF is_recording
            THEN stop_recording_logic
            ELSE UNCHANGED << is_recording, video_writer, live_writers, rec_cause, frame_due >>
    /\ UNCHANGED << static_background >>
    /\ h_ret' = [h_ret EXCEPT ![h] = [op |-> "toggle_motion",
                                      enabled |-> motion_detection_enabled',
                                      found_recording |-> is_recording]]
    /\ pc' = [pc EXCEPT ![h] = "ret"]
    /\ UNCHANGED << cap_open, output_frame, last_motion_time,
                    object_detection_enabled, object_detector,
                    last_detection_time, state_lock, frame_lock, now, heap, rpc,
                    frame_original, frame_processado, motion_detected_this_frame,
                    current_time, detected_objects, wake_at, h_frame, poll_wait,
                    src_ever_open, last_detections, total_detections,
                    detection_counts, last_detection_timestamp, stats_ret,
                    det_history, detection_stats_lock, events_lock, pending,
                    raw_ref, encoded, calls, write_log, g_cameras, flask_up,
                    reg_pc, reg_log, ev_pc, events_file, emitted, acked,
                    ev_count, k_pc, cfg_file, cfg_pc, cfg_done, cfg_calls,
                    cfg_read_failed >>

\* faulty variant: the background is dropped on disarming, kept on arming
H_ToggleMotion_clears_on_disarm(h) ==
    /\ pc[h] = "idle"
    /\ pc["m"] = "serving"
    /\ state_lock = FREE
    /\ motion_detection_enabled' = ~motion_detection_enabled
    /\ IF motion_detection_enabled'
       THEN UNCHANGED << static_background, is_recording, video_writer, live_writers,
                         rec_cause, frame_due >>
       ELSE /\ IF is_recording
               THEN stop_recording_logic
               ELSE UNCHANGED << is_recording, video_writer, live_writers, rec_cause, frame_due >>
            /\ static_background' = None
    /\ h_ret' = [h_ret EXCEPT ![h] = [op |-> "toggle_motion",
                                      enabled |-> motion_detection_enabled',
                                      found_recording |-> is_recording]]
    /\ pc' = [pc EXCEPT ![h] = "ret"]
    /\ UNCHANGED << cap_open, output_frame, last_motion_time,
                    object_detection_enabled, object_detector,
                    last_detection_time, state_lock, frame_lock, now, heap, rpc,
                    frame_original, frame_processado, motion_detected_this_frame,
                    current_time, detected_objects, wake_at, h_frame, poll_wait,
                    src_ever_open, last_detections, total_detections,
                    detection_counts, last_detection_timestamp, stats_ret,
                    det_history, detection_stats_lock, events_lock, pending,
                    raw_ref, encoded, calls, write_log, g_cameras, flask_up,
                    reg_pc, reg_log, ev_pc, events_file, emitted, acked,
                    ev_count, k_pc, cfg_file, cfg_pc, cfg_done, cfg_calls,
                    cfg_read_failed >>

\* faulty variant: the toggle does not take state_lock
H_ToggleMotion_unlocked(h) ==
    /\ pc[h] = "idle"
    /\ pc["m"] = "serving"
    /\ motion_detection_enabled' = ~motion_detection_enabled
    /\ IF motion_detection_enabled'
       THEN /\ static_background' = None
            /\ UNCHANGED << is_recording, video_writer, live_writers, rec_cause, frame_due >>
       ELSE /\ IF is_recording
               THEN stop_recording_logic
               ELSE UNCHANGED << is_recording, video_writer, live_writers, rec_cause, frame_due >>
            /\ UNCHANGED << static_background >>
    /\ h_ret' = [h_ret EXCEPT ![h] = [op |-> "toggle_motion",
                                      enabled |-> motion_detection_enabled',
                                      found_recording |-> is_recording]]
    /\ pc' = [pc EXCEPT ![h] = "ret"]
    /\ UNCHANGED << cap_open, output_frame, last_motion_time,
                    object_detection_enabled, object_detector,
                    last_detection_time, state_lock, frame_lock, now, heap, rpc,
                    frame_original, frame_processado, motion_detected_this_frame,
                    current_time, detected_objects, wake_at, h_frame, poll_wait,
                    src_ever_open, last_detections, total_detections,
                    detection_counts, last_detection_timestamp, stats_ret,
                    det_history, detection_stats_lock, events_lock, pending,
                    raw_ref, encoded, calls, write_log, g_cameras, flask_up,
                    reg_pc, reg_log, ev_pc, events_file, emitted, acked,
                    ev_count, k_pc, cfg_file, cfg_pc, cfg_done, cfg_calls,
                    cfg_read_failed >>

\* POST /toggle_motion_detection
H_ToggleMotion(h) ==
    /\ pc[h] = "idle"
    /\ pc["m"] = "serving"
    /\ state_lock = FREE
    /\ motion_detection_enabled' = ~motion_detection_enabled
    /\ IF motion_detection_enabled'
       THEN /\ static_background' = None
            /\ UNCHANGED << is_recording, video_writer, live_writers, rec_cause, frame_due >>
       ELSE /\ IF is_recording
               THEN stop_recording_logic
               ELSE UNCHANGED << is_recording, video_writer, live_writers, rec_cause, frame_due >>
            /\ UNCHANGED << static_background >>
    /\ h_ret' = [h_ret EXCEPT ![h] = [op |-> "toggle_motion",
                                      enabled |-> motion_detection_enabled',
                                      found_recording |-> is_recording]]
    /\ pc' = [pc EXCEPT ![h] = "ret"]
    /\ UNCHANGED << cap_open, output_frame, last_motion_time,
                    object_detection_enabled, object_detector,
                    last_detection_time, state_lock, frame_lock, now, heap, rpc,
                    frame_original, frame_processado, motion_detected_this_frame,
                    current_time, detected_objects, wake_at, h_frame, poll_wait,
                    src_ever_open, last_detections, total_detections,
                    detection_counts, last_detection_timestamp, stats_ret,
                    det_history, detection_stats_lock, events_lock, pending,
                    raw_ref, encoded, calls, write_log, g_cameras, flask_up,
                    reg_pc, reg_log, ev_pc, events_file, emitted, acked,
                    ev_count, k_pc, cfg_file, cfg_pc, cfg_done, cfg_calls,
                    cfg_read_failed >>

\* POST /toggle_object_detection
H_ToggleObject(h) ==
    /\ pc[h] = "idle"
    /\ pc["m"] = "serving"
    /\ state_lock = FREE
    /\ IF ~object_detection_enabled /\ ~object_detector
       THEN \E built \in BOOLEAN :
               /\ object_detector' = built
               /\ object_detection_enabled' = built
               /\ h_ret' = [h_ret EXCEPT ![h] =
                              IF built
                              THEN [op |-> "toggle_object", enabled |-> TRUE]
                              ELSE [op |-> "toggle_object_error"]]
       ELSE /\ object_detection_enabled' = ~object_detection_enabled
            /\ h_ret' = [h_ret EXCEPT ![h] = [op |-> "toggle_object",
                                              enabled |-> object_detection_enabled']]
            /\ UNCHANGED << object_detector >>
    /\ pc' = [pc EXCEPT ![h] = "ret"]
    /\ UNCHANGED << cap_open, output_frame, is_recording, video_writer,
                    motion_detection_enabled, static_background,
                    last_motion_time, last_detection_time, state_lock,
                    frame_lock, now, heap, rpc, frame_original, frame_processado,
                    motion_detected_this_frame, current_time, detected_objects,
                    wake_at, h_frame, poll_wait, live_writers, rec_cause,
                    src_ever_open, last_detections, total_detections,
                    detection_counts, last_detection_timestamp, stats_ret,
                    det_history, detection_stats_lock, events_lock, pending,
                    frame_due, raw_ref, encoded, calls, write_log, g_cameras,
                    flask_up, reg_pc, reg_log, ev_pc, events_file, emitted,
                    acked, ev_count, k_pc, cfg_file, cfg_pc, cfg_done, cfg_calls,
                    cfg_read_failed >>

\* GET /get_status
H_GetStatus(h) ==
    /\ pc[h] = "idle"
    /\ pc["m"] = "serving"
    /\ state_lock = FREE
    /\ h_ret' = [h_ret EXCEPT ![h] =
                    [op |-> "status",
                     motion_enabled |-> motion_detection_enabled,
                     object_detection_enabled |-> object_detection_enabled,
                     is_recording |-> is_recording,
                     status |-> IF is_recording THEN "Gravando..."
                                ELSE IF motion_detection_enabled THEN "Deteccao Ativada"
                                ELSE "Ocioso"]]
    /\ pc' = [pc EXCEPT ![h] = "ret"]
    /\ UNCHANGED << cap_open, output_frame, is_recording, video_writer,
                    motion_detection_enabled, static_background,
                    last_motion_time, object_detection_enabled, object_detector,
                    last_detection_time, state_lock, frame_lock, now, heap, rpc,
                    frame_original, frame_processado, motion_detected_this_frame,
                    current_time, detected_objects, wake_at, h_frame, poll_wait,
                    live_writers, rec_cause, src_ever_open, last_detections,
                    total_detections, detection_counts, last_detection_timestamp,
                    stats_ret, det_history, detection_stats_lock, events_lock,
                    pending, frame_due, raw_ref, encoded, calls, write_log,
                    g_cameras, flask_up, reg_pc, reg_log, ev_pc, events_file,
                    emitted, acked, ev_count, k_pc, cfg_file, cfg_pc, cfg_done,
                    cfg_calls, cfg_read_failed >>

\* the response has been sent
H_Return(h) ==
    /\ pc[h] = "ret"
    /\ h_ret' = [h_ret EXCEPT ![h] = [op |-> "none"]]
    /\ pc' = [pc EXCEPT ![h] = "idle"]
    /\ UNCHANGED << cap_open, output_frame, is_recording, video_writer,
                    motion_detection_enabled, static_background,
                    last_motion_time, object_detection_enabled, object_detector,
                    last_detection_time, state_lock, frame_lock, now, heap, rpc,
                    frame_original, frame_processado, motion_detected_this_frame,
                    current_time, detected_objects, wake_at, h_frame, poll_wait,
                    live_writers, rec_cause, src_ever_open, last_detections,
                    total_detections, detection_counts, last_detection_timestamp,
                    stats_ret, det_history, detection_stats_lock, events_lock,
                    pending, frame_due, raw_ref, encoded, calls, write_log,
                    g_cameras, flask_up, reg_pc, reg_log, ev_pc, events_file,
                    emitted, acked, ev_count, k_pc, cfg_file, cfg_pc, cfg_done,
                    cfg_calls, cfg_read_failed >>

\* gerar_frames(cam_id): `if cam_id not in g_cameras: return`, else the
\* worker is taken from the registry and the loop begins
V_Open(v) ==
    /\ pc[v] = "closed"
    /\ \E cam_id \in RequestIds :
          pc' = [pc EXCEPT ![v] = IF cam_id \in CAMERA_SOURCES THEN "idle" ELSE "ended"]
    /\ UNCHANGED << cap_open, output_frame, is_recording, video_writer,
                    motion_detection_enabled, static_background,
                    last_motion_time, object_detection_enabled, object_detector,
                    last_detection_time, state_lock, frame_lock, now, heap, rpc,
                    frame_original, frame_processado, motion_detected_this_frame,
                    current_time, detected_objects, wake_at, h_frame, poll_wait,
                    h_ret, live_writers, rec_cause, src_ever_open,
                    last_detections, total_detections, detection_counts,
                    last_detection_timestamp, stats_ret, det_history,
                    detection_stats_lock, events_lock, pending, frame_due,
                    raw_ref, encoded, calls, write_log, g_cameras, flask_up,
                    reg_pc, reg_log, ev_pc, events_file, emitted, acked,
                    ev_count, k_pc, cfg_file, cfg_pc, cfg_done, cfg_calls,
                    cfg_read_failed >>

\* ------------------------------------------------- get_latest_frame (puller)
\* with self.frame_lock:
V_GetFrameAcquire(v) ==
    /\ pc[v] = "idle"
    /\ frame_lock = FREE
    /\ frame_lock' = v
    /\ pc' = [pc EXCEPT ![v] = "gf_copy"]
    /\ UNCHANGED << cap_open, output_frame, is_recording, video_writer,
                    motion_detection_enabled, static_background,
                    last_motion_time, object_detection_enabled, object_detector,
                    last_detection_time, state_lock, now, heap, rpc,
                    frame_original, frame_processado, motion_detected_this_frame,
                    current_time, detected_objects, wake_at, h_frame, poll_wait,
                    h_ret, live_writers, rec_cause, src_ever_open,
                    last_detections, total_detections, detection_counts,
                    last_detection_timestamp, stats_ret, det_history,
                    detection_stats_lock, events_lock, pending, frame_due,
                    raw_ref, encoded, calls, write_log, g_cameras, flask_up,
                    reg_pc, reg_log, ev_pc, events_file, emitted, acked,
                    ev_count, k_pc, cfg_file, cfg_pc, cfg_done, cfg_calls,
                    cfg_read_failed >>

\* faulty variant: the published array itself is handed out
get_latest_frame_nocopy(of) == of

\* the reference get_latest_frame hands out for the published object `of`:
\* None, or self.output_frame.copy()
get_latest_frame(of) == IF of = NoRef THEN NoRef ELSE NewRef

\* faulty variant: the lock is kept while the frame is encoded and yielded
V_GetFrameCopy_keeps_lock(v) ==
    /\ pc[v] = "gf_copy"
    /\ LET got == get_latest_frame(output_frame)
       IN  /\ Store(output_frame, frame_processado, [h_frame EXCEPT ![v] = got],
                    IF got \in {NoRef, output_frame}
                    THEN heap
                    ELSE [heap EXCEPT ![got] = NdCopy(heap, output_frame)])
           /\ pc' = [pc EXCEPT ![v] = IF got = NoRef THEN "gf_sleep" ELSE "idle"]
           /\ poll_wait' = [poll_wait EXCEPT ![v] = IF got = NoRef THEN POLL_SLEEP_MS ELSE 0]
    /\ frame_lock' = IF output_frame = NoRef THEN FREE ELSE frame_lock
    /\ UNCHANGED << cap_open, is_recording, video_writer,
                    motion_detection_enabled, static_background,
                    last_motion_time, object_detection_enabled, object_detector,
                    last_detection_time, state_lock, now, rpc, frame_original,
                    motion_detected_this_frame, current_time, detected_objects,
                    wake_at, h_ret, live_writers, rec_cause, src_ever_open,
                    last_detections, total_detections, detection_counts,
                    last_detection_timestamp, stats_ret, det_history,
                    detection_stats_lock, events_lock, pending, frame_due,
                    raw_ref, encoded, calls, write_log, g_cameras, flask_up,
                    reg_pc, reg_log, ev_pc, events_file, emitted, acked,
                    ev_count, k_pc, cfg_file, cfg_pc, cfg_done, cfg_calls,
                    cfg_read_failed >>

\* ... the caller receives it and the lock is released; gerar_frames goes on
\* to encode and yield the frame, or to time.sleep(0.1) when it got None
V_GetFrameCopy(v) ==
    /\ pc[v] = "gf_copy"
    /\ LET got == get_latest_frame(output_frame)
       IN  /\ Store(output_frame, frame_processado, [h_frame EXCEPT ![v] = got],
                    IF got \in {NoRef, output_frame}
                    THEN heap
                    ELSE [heap EXCEPT ![got] = NdCopy(heap, output_frame)])
           /\ pc' = [pc EXCEPT ![v] = IF got = NoRef THEN "gf_sleep" ELSE "idle"]
           /\ poll_wait' = [poll_wait EXCEPT ![v] = IF got = NoRef THEN POLL_SLEEP_MS ELSE 0]
    /\ frame_lock' = FREE
    /\ UNCHANGED << cap_open, is_recording, video_writer,
                    motion_detection_enabled, static_background,
                    last_motion_time, object_detection_enabled, object_detector,
                    last_detection_time, state_lock, now, rpc, frame_original,
                    motion_detected_this_frame, current_time, detected_objects,
                    wake_at, h_ret, live_writers, rec_cause, src_ever_open,
                    last_detections, total_detections, detection_counts,
                    last_detection_timestamp, stats_ret, det_history,
                    detection_stats_lock, events_lock, pending, frame_due,
                    raw_ref, encoded, calls, write_log, g_cameras, flask_up,
                    reg_pc, reg_log, ev_pc, events_file, emitted, acked,
                    ev_count, k_pc, cfg_file, cfg_pc, cfg_done, cfg_calls,
                    cfg_read_failed >>

\* after the sleep: continue
V_PollRetry(v) ==
    /\ pc[v] = "gf_sleep"
    /\ poll_wait' = [poll_wait EXCEPT ![v] = 0]
    /\ pc' = [pc EXCEPT ![v] = "idle"]
    /\ UNCHANGED << cap_open, output_frame, is_recording, video_writer,
                    motion_detection_enabled, static_background,
                    last_motion_time, object_detection_enabled, object_detector,
                    last_detection_time, state_lock, frame_lock, now, heap, rpc,
                    frame_original, frame_processado, motion_detected_this_frame,
                    current_time, detected_objects, wake_at, h_frame, h_ret,
                    live_writers, rec_cause, src_ever_open, last_detections,
                    total_detections, detection_counts, last_detection_timestamp,
                    stats_ret, det_history, detection_stats_lock, events_lock,
                    pending, frame_due, raw_ref, encoded, calls, write_log,
                    g_cameras, flask_up, reg_pc, reg_log, ev_pc, events_file,
                    emitted, acked, ev_count, k_pc, cfg_file, cfg_pc, cfg_done,
                    cfg_calls, cfg_read_failed >>

\* a consumer writes into the frame it was given
V_MutateFrame(v) ==
    /\ pc[v] = "idle"
    /\ h_frame[v] # NoRef
    /\ SCRIBBLE \notin heap[h_frame[v]].marks
    /\ heap' = Draw(heap, h_frame[v], SCRIBBLE)
    /\ UNCHANGED << cap_open, output_frame, is_recording, video_writer,
                    motion_detection_enabled, static_background,
                    last_motion_time, object_detection_enabled, object_detector,
                    last_detection_time, state_lock, frame_lock, now, pc, rpc,
                    frame_original, frame_processado, motion_detected_this_frame,
                    current_time, detected_objects, wake_at, h_frame, poll_wait,
                    h_ret, live_writers, rec_cause, src_ever_open,
                    last_detections, total_detections, detection_counts,
                    last_detection_timestamp, stats_ret, det_history,
                    detection_stats_lock, events_lock, pending, frame_due,
                    raw_ref, encoded, calls, write_log, g_cameras, flask_up,
                    reg_pc, reg_log, ev_pc, events_file, emitted, acked,
                    ev_count, k_pc, cfg_file, cfg_pc, cfg_done, cfg_calls,
                    cfg_read_failed >>

\* the consumer is done with its frame (the local goes out of scope)
V_DropFrame(v) ==
    /\ pc[v] = "idle"
    /\ h_frame[v] # NoRef
    /\ Store(output_frame, frame_processado, [h_frame EXCEPT ![v] = NoRef], heap)
    /\ UNCHANGED << cap_open, is_recording, video_writer,
                    motion_detection_enabled, static_background,
                    last_motion_time, object_detection_enabled, object_detector,
                    last_detection_time, state_lock, frame_lock, now, pc, rpc,
                    frame_original, motion_detected_this_frame, current_time,
                    detected_objects, wake_at, poll_wait, h_ret, live_writers,
                    rec_cause, src_ever_open, last_detections, total_detections,
                    detection_counts, last_detection_timestamp, stats_ret,
                    det_history, detection_stats_lock, events_lock, pending,
                    frame_due, raw_ref, encoded, calls, write_log, g_cameras,
                    flask_up, reg_pc, reg_log, ev_pc, events_file, emitted,
                    acked, ev_count, k_pc, cfg_file, cfg_pc, cfg_done, cfg_calls,
                    cfg_read_failed >>

\* --------------------------------------------------------------- shutdown
\* release(): with self.state_lock: if self.is_recording: stop_recording_logic()
M_ReleaseStop ==
    /\ pc["m"] = "serving"
    /\ state_lock = FREE
    /\ IF is_recording
       THEN stop_recording_logic
       ELSE UNCHANGED << is_recording, video_writer, live_writers, rec_cause, frame_due >>
    /\ pc' = [pc EXCEPT !["m"] = "rel_cap"]
    /\ UNCHANGED << cap_open, output_frame, motion_detection_enabled,
                    static_background, last_motion_time,
                    object_detection_enabled, object_detector,
                    last_detection_time, state_lock, frame_lock, now, heap, rpc,
                    frame_original, frame_processado, motion_detected_this_frame,
                    current_time, detected_objects, wake_at, h_frame, poll_wait,
                    h_ret, src_ever_open, last_detections, total_detections,
                    detection_counts, last_detection_timestamp, stats_ret,
                    det_history, detection_stats_lock, events_lock, pending,
                    raw_ref, encoded, calls, write_log, g_cameras, flask_up,
                    reg_pc, reg_log, ev_pc, events_file, emitted, acked,
                    ev_count, k_pc, cfg_file, cfg_pc, cfg_done, cfg_calls,
                    cfg_read_failed >>

\* release(): self.cap.release()
M_ReleaseCap ==
    /\ pc["m"] = "rel_cap"
    /\ cap_open' = FALSE
    /\ pc' = [pc EXCEPT !["m"] = "exited"]
    /\ UNCHANGED << output_frame, is_recording, video_writer,
                    motion_detection_enabled, static_background,
                    last_motion_time, object_detection_enabled, object_detector,
                    last_detection_time, state_lock, frame_lock, now, heap, rpc,
                    frame_original, frame_processado, motion_detected_this_frame,
                    current_time, detected_objects, wake_at, h_frame, poll_wait,
                    h_ret, live_writers, rec_cause, src_ever_open,
                    last_detections, total_detections, detection_counts,
                    last_detection_timestamp, stats_ret, det_history,
                    detection_stats_lock, events_lock, pending, frame_due,
                    raw_ref, encoded, calls, write_log, g_cameras, flask_up,
                    reg_pc, reg_log, ev_pc, events_file, emitted, acked,
                    ev_count, k_pc, cfg_file, cfg_pc, cfg_done, cfg_calls,
                    cfg_read_failed >>

\* release() of servidor.py: self.cap.release() comes first
L_ReleaseCap ==
    /\ pc["m"] = "serving"
    /\ cap_open' = FALSE
    /\ pc' = [pc EXCEPT !["m"] = "leg_stop"]
    /\ UNCHANGED << output_frame, is_recording, video_writer,
                    motion_detection_enabled, static_background,
                    last_motion_time, object_detection_enabled, object_detector,
                    last_detection_time, state_lock, frame_lock, now, heap, rpc,
                    frame_original, frame_processado, motion_detected_this_frame,
                    current_time, detected_objects, wake_at, h_frame, poll_wait,
                    h_ret, live_writers, rec_cause, src_ever_open,
                    last_detections, total_detections, detection_counts,
                    last_detection_timestamp, stats_ret, det_history,
                    detection_stats_lock, events_lock, pending, frame_due,
                    raw_ref, encoded, calls, write_log, g_cameras, flask_up,
                    reg_pc, reg_log, ev_pc, events_file, emitted, acked,
                    ev_count, k_pc, cfg_file, cfg_pc, cfg_done, cfg_calls,
                    cfg_read_failed >>

\* release() of servidor.py: with self.state_lock: if self.is_recording: stop
L_ReleaseStop ==
    /\ pc["m"] = "leg_stop"
    /\ state_lock = FREE
    /\ IF is_recording
       THEN stop_recording_logic
       ELSE UNCHANGED << is_recording, video_writer, live_writers, rec_cause, frame_due >>
    /\ pc' = [pc EXCEPT !["m"] = "exited"]
    /\ UNCHANGED << cap_open, output_frame, motion_detection_enabled,
                    static_background, last_motion_time,
                    object_detection_enabled, object_detector,
                    last_detection_time, state_lock, frame_lock, now, heap, rpc,
                    frame_original, frame_processado, motion_detected_this_frame,
                    current_time, detected_objects, wake_at, h_frame, poll_wait,
                    h_ret, src_ever_open, last_detections, total_detections,
                    detection_counts, last_detection_timestamp, stats_ret,
                    det_history, detection_stats_lock, events_lock, pending,
                    raw_ref, encoded, calls, write_log, g_cameras, flask_up,
                    reg_pc, reg_log, ev_pc, events_file, emitted, acked,
                    ev_count, k_pc, cfg_file, cfg_pc, cfg_done, cfg_calls,
                    cfg_read_failed >>

\* ------------------------------------------------------- detection statistics
\* the tail of a list: seq[-n:]
LastN(seq, n) ==
    IF Len(seq) <= n THEN seq ELSE SubSeq(seq, Len(seq) - n + 1, Len(seq))

\* faulty variant: the oldest record is never dropped
AppendDetection_unbounded(ring, record) ==
    Append(ring, record)

\* last_detections.append(...); if len > 10: last_detections.pop(0)
AppendDetection(ring, record) ==
    LET appended == Append(ring, record)
    IN  IF Len(appended) > LAST_DETECTIONS_MAX THEN Tail(appended) ELSE appended

\* for obj in detected_objects: detection_counts[class] += 1, from 0 if absent
RECURSIVE CountClasses(_, _)
CountClasses(counts, objects) ==
    IF objects = << >>
    THEN counts
    ELSE LET class_name == Head(objects)
             known == IF class_name \in DOMAIN counts
                      THEN counts
                      ELSE [c \in DOMAIN counts \cup {class_name} |->
                               IF c = class_name THEN 0 ELSE counts[c]]
         IN  CountClasses([known EXCEPT ![class_name] = @ + 1], Tail(objects))

\* run: the statistics of one inference that returned detected_objects,
\* under detection_stats_lock
W_RecordDetections ==
    /\ Len(det_history) < MaxInferences
    /\ \E found \in StatsDetections :
          IF found # << >>
          THEN LET record == [timestamp |-> now,
                              objects   |-> found,
                              count     |-> Len(found)]
               IN  /\ last_detections' = AppendDetection(last_detections, record)
                   /\ total_detections' = total_detections + Len(found)
                   /\ last_detection_timestamp' = now
                   /\ detection_counts' = CountClasses(detection_counts, found)
                   /\ det_history' = Append(det_history, record)
          ELSE UNCHANGED << last_detections, total_detections, last_detection_timestamp,
                            detection_counts, det_history >>
    /\ last_detection_time' = now
    /\ UNCHANGED << cap_open, output_frame, is_recording, video_writer,
                    motion_detection_enabled, static_background,
                    last_motion_time, object_detection_enabled, object_detector,
                    state_lock, frame_lock, now, heap, pc, rpc, frame_original,
                    frame_processado, motion_detected_this_frame, current_time,
                    detected_objects, wake_at, h_frame, poll_wait, h_ret,
                    live_writers, rec_cause, src_ever_open, stats_ret,
                    detection_stats_lock, events_lock, pending, frame_due,
                    raw_ref, encoded, calls, write_log, g_cameras, flask_up,
                    reg_pc, reg_log, ev_pc, events_file, emitted, acked,
                    ev_count, k_pc, cfg_file, cfg_pc, cfg_done, cfg_calls,
                    cfg_read_failed >>

\* get_detection_stats, under detection_stats_lock
H_GetDetectionStats ==
    /\ stats_ret = NoStats
    /\ stats_ret' = [op                       |-> "stats",
                     total_detections         |-> total_detections,
                     detection_counts         |-> detection_counts,
                     last_detection_timestamp |-> last_detection_timestamp,
                     last_detections          |-> LastN(last_detections, STATS_TAIL),
                     is_enabled               |-> object_detection_enabled,
                     has_detector             |-> object_detector]
    /\ UNCHANGED << cap_open, output_frame, is_recording, video_writer,
                    motion_detection_enabled, static_background,
                    last_motion_time, object_detection_enabled, object_detector,
                    last_detection_time, state_lock, frame_lock, now, heap, pc,
                    rpc, frame_original, frame_processado,
                    motion_detected_this_frame, current_time, detected_objects,
                    wake_at, h_frame, poll_wait, h_ret, live_writers, rec_cause,
                    src_ever_open, last_detections, total_detections,
                    detection_counts, last_detection_timestamp, det_history,
                    detection_stats_lock, events_lock, pending, frame_due,
                    raw_ref, encoded, calls, write_log, g_cameras, flask_up,
                    reg_pc, reg_log, ev_pc, events_file, emitted, acked,
                    ev_count, k_pc, cfg_file, cfg_pc, cfg_done, cfg_calls,
                    cfg_read_failed >>

\* the response is sent
H_StatsReturn ==
    /\ stats_ret # NoStats
    /\ stats_ret' = NoStats
    /\ UNCHANGED << cap_open, output_frame, is_recording, video_writer,
                    motion_detection_enabled, static_background,
                    last_motion_time, object_detection_enabled, object_detector,
                    last_detection_time, state_lock, frame_lock, now, heap, pc,
                    rpc, frame_original, frame_processado,
                    motion_detected_this_frame, current_time, detected_objects,
                    wake_at, h_frame, poll_wait, h_ret, live_writers, rec_cause,
                    src_ever_open, last_detections, total_detections,
                    detection_counts, last_detection_timestamp, det_history,
                    detection_stats_lock, events_lock, pending, frame_due,
                    raw_ref, encoded, calls, write_log, g_cameras, flask_up,
                    reg_pc, reg_log, ev_pc, events_file, emitted, acked,
                    ev_count, k_pc, cfg_file, cfg_pc, cfg_done, cfg_calls,
                    cfg_read_failed >>

\* ------------------------------------------------------------ lock discipline
\* A region of code is the sequence of lock operations it performs, from
\* taking its first lock to releasing its last; between two regions a
\* thread holds no lock.
Acq(lock) == << "acq", lock >>
Rel(lock) == << "rel", lock >>
\* with lock: body
Under(lock, body) == << Acq(lock) >> \o body \o << Rel(lock) >>

\* faulty variant: log_event keeps events_lock while it calls _save_events
LogEventLocks_held ==
    Under("events", Under("events", << >>))

\* log_event: _load_events() then _save_events(), each under events_lock
LogEventLocks ==
    Under("events", << >>) \o Under("events", << >>)

\* get_latest_frame
GetLatestFrameLocks ==
    Under("frame", << >>)

\* get_detection_stats
GetDetectionStatsLocks ==
    Under("stats", << >>)

\* start_recording_logic: nothing when already recording; else the frame
\* copy, then log_event (failure or RECORDING_STARTED) when logging is there
StartRecordingLocks ==
    { << >>, GetLatestFrameLocks, GetLatestFrameLocks \o LogEventLocks }

\* stop_recording_logic: log_event(RECORDING_STOPPED) when a writer was closed
StopRecordingLocks ==
    { << >>, LogEventLocks }

\* CameraWorker.run
WorkerRegions ==
    { Under("frame", << >>) }                                \* publish a frame
    \cup { Under("state", << >>) }                           \* flag, background, write
    \cup { Under("state", pre \o body) :                     \* motion decision: start
              pre \in {<< >>, LogEventLocks}, body \in StartRecordingLocks }
    \cup { Under("state", body) : body \in StopRecordingLocks }   \* cooldown stop
    \cup { Under("stats", << >>) }                           \* statistics
    \cup { Under("state", body) : body \in StartRecordingLocks }  \* object start
    \cup { LogEventLocks }                                   \* OBJECT_DETECTED, SYSTEM_ERROR

\* the request handlers of routes.py and stats.py
HandlerRegions ==
    { Under("state", << >>) }                                \* status, toggle object
    \cup { Under("state", body) : body \in StartRecordingLocks }  \* start_recording
    \cup { Under("state", body) : body \in StopRecordingLocks }   \* stop, toggle motion
    \cup { LogEventLocks }                                   \* USER_ACTION, clear_events
    \cup { Under("events", << >>) }                          \* get_events
    \cup { GetDetectionStatsLocks }                          \* detection stats
    \cup { Under("state", GetDetectionStatsLocks) }          \* get_camera_stats

\* gerar_frames
PullerRegions ==
    { GetLatestFrameLocks }

\* release
ReleaseRegions ==
    { Under("state", body) : body \in StopRecordingLocks }

RegionsOf(t) ==
    IF t = "w" THEN WorkerRegions
    ELSE IF t = "m" THEN ReleaseRegions
    ELSE IF t \in LockHandlers THEN HandlerRegions
    ELSE PullerRegions

LockHolder(lock) ==
    CASE lock = "state"  -> state_lock
      [] lock = "frame"  -> frame_lock
      [] lock = "stats"  -> detection_stats_lock
      [] lock = "events" -> events_lock

\* the locks with one of them given to (or taken from) a thread
SetHolder(lock, who) ==
    /\ state_lock' = IF lock = "state" THEN who ELSE state_lock
    /\ frame_lock' = IF lock = "frame" THEN who ELSE frame_lock
    /\ detection_stats_lock' = IF lock = "stats" THEN who ELSE detection_stats_lock
    /\ events_lock' = IF lock = "events" THEN who ELSE events_lock

\* a thread enters one of its regions
LK_Enter(t) ==
    /\ pending[t] = << >>
    /\ \E region \in RegionsOf(t) :
          /\ region # << >>
          /\ pending' = [pending EXCEPT ![t] = region]
    /\ UNCHANGED << cap_open, output_frame, is_recording, video_writer,
                    motion_detection_enabled, static_background,
                    last_motion_time, object_detection_enabled, object_detector,
                    last_detection_time, state_lock, frame_lock, now, heap, pc,
                    rpc, frame_original, frame_processado,
                    motion_detected_this_frame, current_time, detected_objects,
                    wake_at, h_frame, poll_wait, h_ret, live_writers, rec_cause,
                    src_ever_open, last_detections, total_detections,
                    detection_counts, last_detection_timestamp, stats_ret,
                    det_history, detection_stats_lock, events_lock, frame_due,
                    raw_ref, encoded, calls, write_log, g_cameras, flask_up,
                    reg_pc, reg_log, ev_pc, events_file, emitted, acked,
                    ev_count, k_pc, cfg_file, cfg_pc, cfg_done, cfg_calls,
                    cfg_read_failed >>

\* threading.Lock.acquire: blocks while the lock is held, by whoever
LK_Acquire(t) ==
    /\ pending[t] # << >>
    /\ Head(pending[t])[1] = "acq"
    /\ LockHolder(Head(pending[t])[2]) = FREE
    /\ SetHolder(Head(pending[t])[2], t)
    /\ pending' = [pending EXCEPT ![t] = Tail(@)]
    /\ UNCHANGED << cap_open, output_frame, is_recording, video_writer,
                    motion_detection_enabled, static_background,
                    last_motion_time, object_detection_enabled, object_detector,
                    last_detection_time, now, heap, pc, rpc, frame_original,
                    frame_processado, motion_detected_this_frame, current_time,
                    detected_objects, wake_at, h_frame, poll_wait, h_ret,
                    live_writers, rec_cause, src_ever_open, last_detections,
                    total_detections, detection_counts, last_detection_timestamp,
                    stats_ret, det_history, frame_due, raw_ref, encoded, calls,
                    write_log, g_cameras, flask_up, reg_pc, reg_log, ev_pc,
                    events_file, emitted, acked, ev_count, k_pc, cfg_file,
                    cfg_pc, cfg_done, cfg_calls, cfg_read_failed >>

\* threading.Lock.release at the end of the with block
LK_Release(t) ==
    /\ pending[t] # << >>
    /\ Head(pending[t])[1] = "rel"
    /\ SetHolder(Head(pending[t])[2], FREE)
    /\ pending' = [pending EXCEPT ![t] = Tail(@)]
    /\ UNCHANGED << cap_open, output_frame, is_recording, video_writer,
                    motion_detection_enabled, static_background,
                    last_motion_time, object_detection_enabled, object_detector,
                    last_detection_time, now, heap, pc, rpc, frame_original,
                    frame_processado, motion_detected_this_frame, current_time,
                    detected_objects, wake_at, h_frame, poll_wait, h_ret,
                    live_writers, rec_cause, src_ever_open, last_detections,
                    total_detections, detection_counts, last_detection_timestamp,
                    stats_ret, det_history, frame_due, raw_ref, encoded, calls,
                    write_log, g_cameras, flask_up, reg_pc, reg_log, ev_pc,
                    events_file, emitted, acked, ev_count, k_pc, cfg_file,
                    cfg_pc, cfg_done, cfg_calls, cfg_read_failed >>

\* the thread this one is waiting for, if it is blocked in acquire
WaitsFor(t) ==
    IF /\ pending[t] # << >>
       /\ Head(pending[t])[1] = "acq"
       /\ LockHolder(Head(pending[t])[2]) # FREE
    THEN LockHolder(Head(pending[t])[2])
    ELSE "nobody"

\* where the chain of waits from t is after k links
RECURSIVE WaitChain(_, _)
WaitChain(t, k) ==
    IF k = 0 \/ t = "nobody" THEN t ELSE WaitChain(WaitsFor(t), k - 1)

\* ------------------------------------------- the frames of one iteration
\* The raw frame and its annotated copy as numpy arrays, by reference: cell 1
\* is what _read_frame returned, cell 2 its copy, cell 3 the copy made by
\* ObjectDetector.detect, cell 4 the published frame.
RawFrame(r) == [kind |-> "camera", marks |-> {}, pixels |-> r]

\* faulty variant: frame_processado = frame_original, without .copy()
R_ReadCopy_alias ==
    /\ pc["w"] = "top"
    /\ \E r \in Frames :
          /\ frame_original' = r
          /\ heap' = [heap EXCEPT ![1] = RawFrame(r), ![2] = FreeCell, ![3] = FreeCell]
    /\ raw_ref' = 1
    /\ frame_processado' = 1
    /\ pc' = [pc EXCEPT !["w"] = "r_motion"]
    /\ UNCHANGED << cap_open, output_frame, is_recording, video_writer,
                    motion_detection_enabled, static_background,
                    last_motion_time, object_detection_enabled, object_detector,
                    last_detection_time, state_lock, frame_lock, now, rpc,
                    motion_detected_this_frame, current_time, detected_objects,
                    wake_at, h_frame, poll_wait, h_ret, live_writers, rec_cause,
                    src_ever_open, last_detections, total_detections,
                    detection_counts, last_detection_timestamp, stats_ret,
                    det_history, detection_stats_lock, events_lock, pending,
                    frame_due, encoded, calls, write_log, g_cameras, flask_up,
                    reg_pc, reg_log, ev_pc, events_file, emitted, acked,
                    ev_count, k_pc, cfg_file, cfg_pc, cfg_done, cfg_calls,
                    cfg_read_failed >>

\* frame_original = self._read_frame(); frame_processado = frame_original.copy()
R_ReadCopy ==
    /\ pc["w"] = "top"
    /\ \E r \in Frames :
          /\ frame_original' = r
          /\ heap' = [heap EXCEPT ![1] = RawFrame(r),
                                  ![2] = NdCopy([heap EXCEPT ![1] = RawFrame(r)], 1),
                                  ![3] = FreeCell]
    /\ raw_ref' = 1
    /\ frame_processado' = 2
    /\ pc' = [pc EXCEPT !["w"] = "r_motion"]
    /\ UNCHANGED << cap_open, output_frame, is_recording, video_writer,
                    motion_detection_enabled, static_background,
                    last_motion_time, object_detection_enabled, object_detector,
                    last_detection_time, state_lock, frame_lock, now, rpc,
                    motion_detected_this_frame, current_time, detected_objects,
                    wake_at, h_frame, poll_wait, h_ret, live_writers, rec_cause,
                    src_ever_open, last_detections, total_detections,
                    detection_counts, last_detection_timestamp, stats_ret,
                    det_history, detection_stats_lock, events_lock, pending,
                    frame_due, encoded, calls, write_log, g_cameras, flask_up,
                    reg_pc, reg_log, ev_pc, events_file, emitted, acked,
                    ev_count, k_pc, cfg_file, cfg_pc, cfg_done, cfg_calls,
                    cfg_read_failed >>

\* cv2.rectangle(frame_processado, ...) for every contour that is motion
R_MotionDraw ==
    /\ pc["w"] = "r_motion"
    /\ \E motion \in BOOLEAN :
          heap' = IF motion THEN Draw(heap, frame_processado, OVERLAY) ELSE heap
    /\ pc' = [pc EXCEPT !["w"] = "r_detect"]
    /\ UNCHANGED << cap_open, output_frame, is_recording, video_writer,
                    motion_detection_enabled, static_background,
                    last_motion_time, object_detection_enabled, object_detector,
                    last_detection_time, state_lock, frame_lock, now, rpc,
                    frame_original, frame_processado, motion_detected_this_frame,
                    current_time, detected_objects, wake_at, h_frame, poll_wait,
                    h_ret, live_writers, rec_cause, src_ever_open,
                    last_detections, total_detections, detection_counts,
                    last_detection_timestamp, stats_ret, det_history,
                    detection_stats_lock, events_lock, pending, frame_due,
                    raw_ref, encoded, calls, write_log, g_cameras, flask_up,
                    reg_pc, reg_log, ev_pc, events_file, emitted, acked,
                    ev_count, k_pc, cfg_file, cfg_pc, cfg_done, cfg_calls,
                    cfg_read_failed >>

\* frame_processado, detected_objects = self.object_detector.detect(frame_processado):
\* detect draws its boxes on frame.copy() and returns that copy
R_Detect ==
    /\ pc["w"] = "r_detect"
    /\ \E outcome \in Detections \cup {<<"raise">>, <<"not due">>} :
          IF outcome \in {<<"raise">>, <<"not due">>}
          THEN UNCHANGED << heap, frame_processado >>
          ELSE /\ heap' = [heap EXCEPT ![3] =
                             IF outcome = << >>
                             THEN NdCopy(heap, frame_processado)
                             ELSE [NdCopy(heap, frame_processado)
                                     EXCEPT !.marks = @ \cup {OVERLAY}]]
               /\ frame_processado' = 3
    /\ pc' = [pc EXCEPT !["w"] = "r_write"]
    /\ UNCHANGED << cap_open, output_frame, is_recording, video_writer,
                    motion_detection_enabled, static_background,
                    last_motion_time, object_detection_enabled, object_detector,
                    last_detection_time, state_lock, frame_lock, now, rpc,
                    frame_original, motion_detected_this_frame, current_time,
                    detected_objects, wake_at, h_frame, poll_wait, h_ret,
                    live_writers, rec_cause, src_ever_open, last_detections,
                    total_detections, detection_counts, last_detection_timestamp,
                    stats_ret, det_history, detection_stats_lock, events_lock,
                    pending, frame_due, raw_ref, encoded, calls, write_log,
                    g_cameras, flask_up, reg_pc, reg_log, ev_pc, events_file,
                    emitted, acked, ev_count, k_pc, cfg_file, cfg_pc, cfg_done,
                    cfg_calls, cfg_read_failed >>

\* faulty variant: a write that raised ends the recording
R_Write_gives_up ==
    /\ pc["w"] = "r_write"
    /\ state_lock = FREE
    /\ IF is_recording /\ video_writer # {}
       THEN /\ Len(write_log) < MaxWrites
            /\ Len(encoded) < MaxEncoded
            /\ \E raised \in BOOLEAN :
                  /\ write_log' = Append(write_log, raised)
                  /\ encoded' = IF raised THEN encoded ELSE Append(encoded, heap[raw_ref])
                  /\ IF raised
                     THEN stop_recording_logic
                     ELSE UNCHANGED << is_recording, video_writer, live_writers,
                                       rec_cause, frame_due >>
       ELSE UNCHANGED << encoded, write_log, is_recording, video_writer, live_writers,
                         rec_cause, frame_due >>
    /\ pc' = [pc EXCEPT !["w"] = "r_pub"]
    /\ UNCHANGED << cap_open, output_frame, motion_detection_enabled,
                    static_background, last_motion_time,
                    object_detection_enabled, object_detector,
                    last_detection_time, state_lock, frame_lock, now, heap, rpc,
                    frame_original, frame_processado, motion_detected_this_frame,
                    current_time, detected_objects, wake_at, h_frame, poll_wait,
                    h_ret, src_ever_open, last_detections, total_detections,
                    detection_counts, last_detection_timestamp, stats_ret,
                    det_history, detection_stats_lock, events_lock, pending,
                    raw_ref, calls, g_cameras, flask_up, reg_pc, reg_log, ev_pc,
                    events_file, emitted, acked, ev_count, k_pc, cfg_file,
                    cfg_pc, cfg_done, cfg_calls, cfg_read_failed >>

\* with self.state_lock: if self.is_recording and self.video_writer is not None:
\*     try: self.video_writer.write(frame_original)  except cv2.error: pass
R_Write ==
    /\ pc["w"] = "r_write"
    /\ state_lock = FREE
    /\ IF is_recording /\ video_writer # {}
       THEN /\ Len(write_log) < MaxWrites
            /\ Len(encoded) < MaxEncoded
            /\ \E raised \in BOOLEAN :
                  /\ write_log' = Append(write_log, raised)
                  /\ encoded' = IF raised THEN encoded ELSE Append(encoded, heap[raw_ref])
       ELSE UNCHANGED << encoded, write_log >>
    /\ pc' = [pc EXCEPT !["w"] = "r_pub"]
    /\ UNCHANGED << cap_open, output_frame, is_recording, video_writer,
                    motion_detection_enabled, static_background,
                    last_motion_time, object_detection_enabled, object_detector,
                    last_detection_time, state_lock, frame_lock, now, heap, rpc,
                    frame_original, frame_processado, motion_detected_this_frame,
                    current_time, detected_objects, wake_at, h_frame, poll_wait,
                    h_ret, live_writers, rec_cause, src_ever_open,
                    last_detections, total_detections, detection_counts,
                    last_detection_timestamp, stats_ret, det_history,
                    detection_stats_lock, events_lock, pending, frame_due,
                    raw_ref, calls, g_cameras, flask_up, reg_pc, reg_log, ev_pc,
                    events_file, emitted, acked, ev_count, k_pc, cfg_file,
                    cfg_pc, cfg_done, cfg_calls, cfg_read_failed >>

\* self.output_frame = frame_processado; the locals of the iteration die
R_Publish ==
    /\ pc["w"] = "r_pub"
    /\ heap' = [i \in ObjIds |-> IF i = 4 THEN heap[frame_processado] ELSE FreeCell]
    /\ output_frame' = 4
    /\ frame_processado' = NoRef
    /\ raw_ref' = NoRef
    /\ frame_original' = None
    /\ pc' = [pc EXCEPT !["w"] = "top"]
    /\ UNCHANGED << cap_open, is_recording, video_writer,
                    motion_detection_enabled, static_background,
                    last_motion_time, object_detection_enabled, object_detector,
                    last_detection_time, state_lock, frame_lock, now, rpc,
                    motion_detected_this_frame, current_time, detected_objects,
                    wake_at, h_frame, poll_wait, h_ret, live_writers, rec_cause,
                    src_ever_open, last_detections, total_detections,
                    detection_counts, last_detection_timestamp, stats_ret,
                    det_history, detection_stats_lock, events_lock, pending,
                    frame_due, encoded, calls, write_log, g_cameras, flask_up,
                    reg_pc, reg_log, ev_pc, events_file, emitted, acked,
                    ev_count, k_pc, cfg_file, cfg_pc, cfg_done, cfg_calls,
                    cfg_read_failed >>

\* ------------------------------------------------- inference, call by call
\* run: the object detection block of an iteration in which the detector is
\* called: the time check, detect(), and last_detection_time = current_time
\* when detect() returned; the except clause leaves the fields as they are
D_ObjectDetection ==
    /\ Len(calls) < MaxCalls
    /\ object_detection_enabled
    /\ object_detector
    /\ DetectionDue(now, last_detection_time)
    /\ \E outcome \in Detections \cup {<<"raise">>} :
          /\ calls' = Append(calls, [at |-> now, raised |-> outcome = <<"raise">>])
          /\ IF outcome = <<"raise">>
             THEN UNCHANGED << last_detection_time >>
             ELSE last_detection_time' = now
    /\ UNCHANGED << cap_open, output_frame, is_recording, video_writer,
                    motion_detection_enabled, static_background,
                    last_motion_time, object_detection_enabled, object_detector,
                    state_lock, frame_lock, now, heap, pc, rpc, frame_original,
                    frame_processado, motion_detected_this_frame, current_time,
                    detected_objects, wake_at, h_frame, poll_wait, h_ret,
                    live_writers, rec_cause, src_ever_open, last_detections,
                    total_detections, detection_counts, last_detection_timestamp,
                    stats_ret, det_history, detection_stats_lock, events_lock,
                    pending, frame_due, raw_ref, encoded, write_log, g_cameras,
                    flask_up, reg_pc, reg_log, ev_pc, events_file, emitted,
                    acked, ev_count, k_pc, cfg_file, cfg_pc, cfg_done, cfg_calls,
                    cfg_read_failed >>

\* ------------------------------------------------------------ the registry
\* the locks thread t holds
LocksHeld(t) == { lock \in LockNames : LockHolder(lock) = t }

\* a registry operation of thread t, noted with the locks t holds
RegOp(t, op) ==
    reg_log' = reg_log \cup {[op |-> op, held |-> LocksHeld(t)]}

\* servidor.main: worker.start(); g_cameras[cam_id] = worker, camera by camera
G_Insert ==
    /\ ~flask_up
    /\ \E cam_id \in CAMERA_SOURCES \ g_cameras :
          g_cameras' = g_cameras \cup {cam_id}
    /\ RegOp("m", "insert")
    /\ UNCHANGED << cap_open, output_frame, is_recording, video_writer,
                    motion_detection_enabled, static_background,
                    last_motion_time, object_detection_enabled, object_detector,
                    last_detection_time, state_lock, frame_lock, now, heap, pc,
                    rpc, frame_original, frame_processado,
                    motion_detected_this_frame, current_time, detected_objects,
                    wake_at, h_frame, poll_wait, h_ret, live_writers, rec_cause,
                    src_ever_open, last_detections, total_detections,
                    detection_counts, last_detection_timestamp, stats_ret,
                    det_history, detection_stats_lock, events_lock, pending,
                    frame_due, raw_ref, encoded, calls, write_log, flask_up,
                    reg_pc, ev_pc, events_file, emitted, acked, ev_count, k_pc,
                    cfg_file, cfg_pc, cfg_done, cfg_calls, cfg_read_failed >>

\* servidor.main: app.run(..., threaded=True) once every camera is inserted
G_AppRun ==
    /\ ~flask_up
    /\ g_cameras = CAMERA_SOURCES
    /\ flask_up' = TRUE
    /\ UNCHANGED << cap_open, output_frame, is_recording, video_writer,
                    motion_detection_enabled, static_background,
                    last_motion_time, object_detection_enabled, object_detector,
                    last_detection_time, state_lock, frame_lock, now, heap, pc,
                    rpc, frame_original, frame_processado,
                    motion_detected_this_frame, current_time, detected_objects,
                    wake_at, h_frame, poll_wait, h_ret, live_writers, rec_cause,
                    src_ever_open, last_detections, total_detections,
                    detection_counts, last_detection_timestamp, stats_ret,
                    det_history, detection_stats_lock, events_lock, pending,
                    frame_due, raw_ref, encoded, calls, write_log, g_cameras,
                    reg_pc, reg_log, ev_pc, events_file, emitted, acked,
                    ev_count, k_pc, cfg_file, cfg_pc, cfg_done, cfg_calls,
                    cfg_read_failed >>

\* a route or gerar_frames: `if cam_id not in g_cameras: return`
G_Contains(t) ==
    /\ flask_up
    /\ reg_pc[t].at = "idle"
    /\ \E cam_id \in RequestIds :
          reg_pc' = [reg_pc EXCEPT ![t] =
                        IF cam_id \in g_cameras
                        THEN [at |-> "found", cam_id |-> cam_id]
                        ELSE [at |-> "not found"]]
    /\ RegOp(t, "contains")
    /\ UNCHANGED << cap_open, output_frame, is_recording, video_writer,
                    motion_detection_enabled, static_background,
                    last_motion_time, object_detection_enabled, object_detector,
                    last_detection_time, state_lock, frame_lock, now, heap, pc,
                    rpc, frame_original, frame_processado,
                    motion_detected_this_frame, current_time, detected_objects,
                    wake_at, h_frame, poll_wait, h_ret, live_writers, rec_cause,
                    src_ever_open, last_detections, total_detections,
                    detection_counts, last_detection_timestamp, stats_ret,
                    det_history, detection_stats_lock, events_lock, pending,
                    frame_due, raw_ref, encoded, calls, write_log, g_cameras,
                    flask_up, ev_pc, events_file, emitted, acked, ev_count, k_pc,
                    cfg_file, cfg_pc, cfg_done, cfg_calls, cfg_read_failed >>

\* ... worker = g_cameras[cam_id]
G_GetItem(t) ==
    /\ reg_pc[t].at = "found"
    /\ reg_pc[t].cam_id \in g_cameras
    /\ reg_pc' = [reg_pc EXCEPT ![t] = [at |-> "worker", cam_id |-> reg_pc[t].cam_id]]
    /\ RegOp(t, "getitem")
    /\ UNCHANGED << cap_open, output_frame, is_recording, video_writer,
                    motion_detection_enabled, static_background,
                    last_motion_time, object_detection_enabled, object_detector,
                    last_detection_time, state_lock, frame_lock, now, heap, pc,
                    rpc, frame_original, frame_processado,
                    motion_detected_this_frame, current_time, detected_objects,
                    wake_at, h_frame, poll_wait, h_ret, live_writers, rec_cause,
                    src_ever_open, last_detections, total_detections,
                    detection_counts, last_detection_timestamp, stats_ret,
                    det_history, detection_stats_lock, events_lock, pending,
                    frame_due, raw_ref, encoded, calls, write_log, g_cameras,
                    flask_up, ev_pc, events_file, emitted, acked, ev_count, k_pc,
                    cfg_file, cfg_pc, cfg_done, cfg_calls, cfg_read_failed >>

\* ... a route goes on to `with worker.state_lock:`, gerar_frames to
\* get_latest_frame (`with self.frame_lock:`)
G_UseWorker(t) ==
    /\ reg_pc[t].at = "worker"
    /\ LockHolder(IF t \in LockHandlers THEN "state" ELSE "frame") = FREE
    /\ SetHolder(IF t \in LockHandlers THEN "state" ELSE "frame", t)
    /\ reg_pc' = [reg_pc EXCEPT ![t] = [at |-> "locked"]]
    /\ UNCHANGED << cap_open, output_frame, is_recording, video_writer,
                    motion_detection_enabled, static_background,
                    last_motion_time, object_detection_enabled, object_detector,
                    last_detection_time, now, heap, pc, rpc, frame_original,
                    frame_processado, motion_detected_this_frame, current_time,
                    detected_objects, wake_at, h_frame, poll_wait, h_ret,
                    live_writers, rec_cause, src_ever_open, last_detections,
                    total_detections, detection_counts, last_detection_timestamp,
                    stats_ret, det_history, pending, frame_due, raw_ref, encoded,
                    calls, write_log, g_cameras, flask_up, reg_log, ev_pc,
                    events_file, emitted, acked, ev_count, k_pc, cfg_file,
                    cfg_pc, cfg_done, cfg_calls, cfg_read_failed >>

\* ... the with block ends; the request is answered (404 for an unknown id)
G_Done(t) ==
    /\ reg_pc[t].at \in {"locked", "not found"}
    /\ SetHolder(IF t \in LockHandlers THEN "state" ELSE "frame",
                 IF reg_pc[t].at = "locked" THEN FREE
                 ELSE LockHolder(IF t \in LockHandlers THEN "state" ELSE "frame"))
    /\ reg_pc' = [reg_pc EXCEPT ![t] = [at |-> "idle"]]
    /\ UNCHANGED << cap_open, output_frame, is_recording, video_writer,
                    motion_detection_enabled, static_background,
                    last_motion_time, object_detection_enabled, object_detector,
                    last_detection_time, now, heap, pc, rpc, frame_original,
                    frame_processado, motion_detected_this_frame, current_time,
                    detected_objects, wake_at, h_frame, poll_wait, h_ret,
                    live_writers, rec_cause, src_ever_open, last_detections,
                    total_detections, detection_counts, last_detection_timestamp,
                    stats_ret, det_history, pending, frame_due, raw_ref, encoded,
                    calls, write_log, g_cameras, flask_up, reg_log, ev_pc,
                    events_file, emitted, acked, ev_count, k_pc, cfg_file,
                    cfg_pc, cfg_done, cfg_calls, cfg_read_failed >>

\* ------------------------------------------------------------------ clock
Tick ==
    /\ now < MaxTime
    /\ now' = now + 1
    /\ UNCHANGED << cap_open, output_frame, is_recording, video_writer,
                    motion_detection_enabled, static_background,
                    last_motion_time, object_detection_enabled, object_detector,
                    last_detection_time, state_lock, frame_lock, heap, pc, rpc,
                    frame_original, frame_processado, motion_detected_this_frame,
                    current_time, detected_objects, wake_at, h_frame, poll_wait,
                    h_ret, live_writers, rec_cause, src_ever_open,
                    last_detections, total_detections, detection_counts,
                    last_detection_timestamp, stats_ret, det_history,
                    detection_stats_lock, events_lock, pending, frame_due,
                    raw_ref, encoded, calls, write_log, g_cameras, flask_up,
                    reg_pc, reg_log, ev_pc, events_file, emitted, acked,
                    ev_count, k_pc, cfg_file, cfg_pc, cfg_done, cfg_calls,
                    cfg_read_failed >>

WorkerNext ==
    \/ W_Begin
    \/ W_PublishNoCamera
    \/ W_Reopen
    \/ W_PublishReadFailure
    \/ W_ReadRetry
    \/ W_ReadMotionFlag
    \/ W_Background
    \/ W_MotionDecide
    \/ W_MotionRet
    \/ W_ObjectDetection
    \/ W_ObjectRecord
    \/ W_ObjectRet
    \/ W_Write
    \/ W_Publish
    \/ SRL_AcquireFrameLock("w")
    \/ SRL_GetLatestFrame("w")
    \/ SRL_ReadFrame("w")

HandlerNext ==
    \/ \E h \in Handlers : SRL_AcquireFrameLock(h)
    \/ \E h \in Handlers : SRL_GetLatestFrame(h)
    \/ \E h \in Handlers : SRL_ReadFrame(h)
    \/ \E h \in Handlers : H_StartRecording(h)
    \/ \E h \in Handlers : H_StartRet(h)
    \/ \E h \in Handlers : H_StopRecording(h)
    \/ \E h \in Handlers : H_ToggleMotion(h)
    \/ \E h \in Handlers : H_ToggleObject(h)
    \/ \E h \in Handlers : H_GetStatus(h)
    \/ \E h \in Handlers : H_Return(h)

ViewerNext ==
    \/ \E v \in Viewers : V_Open(v)
    \/ \E v \in Viewers : V_GetFrameAcquire(v)
    \/ \E v \in Viewers : V_GetFrameCopy(v)
    \/ \E v \in Viewers : V_PollRetry(v)
    \/ \E v \in Viewers : V_MutateFrame(v)
    \/ \E v \in Viewers : V_DropFrame(v)

ShutdownNext ==
    \/ M_ReleaseStop
    \/ M_ReleaseCap

\* The worker, the HTTP commands, the shutdown and the clock.
Next ==
    \/ WorkerNext
    \/ HandlerNext
    \/ ShutdownNext
    \/ Tick

Spec == Init /\ [][Next]_vars

\* The worker, the frame consumers and the two detection toggles: the
\* frame hand-off between the loop and the stream pullers.
NextFrames ==
    \/ WorkerNext
    \/ ViewerNext
    \/ \E h \in Handlers : H_ToggleMotion(h)
    \/ \E h \in Handlers : H_ToggleObject(h)
    \/ \E h \in Handlers : H_Return(h)

SpecFrames == Init /\ [][NextFrames]_vars

\* The loop of the worker with the two detection toggles; the worker thread is scheduled again and again (no other thread can hold a
\* lock here for longer than one step).
NextLoop ==
    \/ WorkerNext
    \/ \E h \in Handlers : H_ToggleMotion(h)
    \/ \E h \in Handlers : H_ToggleObject(h)
    \/ \E h \in Handlers : H_Return(h)

SpecLoop == Init /\ [][NextLoop]_vars /\ WF_vars(WorkerNext)

\* The loop of the worker with every command of the web routes and
\* release(), the clock standing still.
NextCommands ==
    \/ WorkerNext
    \/ HandlerNext
    \/ ShutdownNext

SpecCommands == Init /\ [][NextCommands]_vars

\* Shutdown: the worker loop and the detection toggles with release() called
\* once, as app/camera_worker.py or as servidor.py writes it.
LegacyShutdownNext ==
    \/ L_ReleaseCap
    \/ L_ReleaseStop

NextShutdown ==
    \/ WorkerNext
    \/ \E h \in Handlers : H_ToggleMotion(h)
    \/ \E h \in Handlers : H_ToggleObject(h)
    \/ \E h \in Handlers : H_Return(h)
    \/ ShutdownNext
    \/ LegacyShutdownNext

SpecShutdown == Init /\ [][NextShutdown]_vars

\* Detection statistics: the inferences of the worker and the readers of
\* get_detection_stats.  The loop itself reads none of these fields, so the
\* other specifications leave them at their initial values.  The clock
\* stands still: the records differ by what was detected.
NextStats ==
    \/ W_RecordDetections
    \/ H_GetDetectionStats
    \/ H_StatsReturn

SpecStats == Init /\ [][NextStats]_vars

\* Lock discipline: every thread runs its regions of code one lock
\* operation at a time.
NextLocks ==
    \/ \E t \in LockThreads : LK_Enter(t)
    \/ \E t \in LockThreads : LK_Acquire(t)
    \/ \E t \in LockThreads : LK_Release(t)

\* The calls of the detector one after the other, with the clock and the
\* object detection toggle.
NextCalls ==
    \/ D_ObjectDetection
    \/ \E h \in Handlers : H_ToggleObject(h)
    \/ \E h \in Handlers : H_Return(h)
    \/ Tick

SpecCalls == Init /\ [][NextCalls]_vars

SpecLocks == Init /\ [][NextLocks]_vars

\* The registry of workers: main() fills it, then the request threads look
\* cameras up.
NextRegistry ==
    \/ G_Insert
    \/ G_AppRun
    \/ \E t \in RegThreads : G_Contains(t)
    \/ \E t \in RegThreads : G_GetItem(t)
    \/ \E t \in RegThreads : G_UseWorker(t)
    \/ \E t \in RegThreads : G_Done(t)

SpecRegistry == Init /\ [][NextRegistry]_vars

\* The frames of an iteration that read one, by reference, with what the
\* motion detector and the object detector may do, and the recording
\* started and stopped by command.
NextRaw ==
    \/ R_ReadCopy
    \/ R_MotionDraw
    \/ R_Detect
    \/ R_Write
    \/ R_Publish
    \/ \E h \in Handlers : H_StartRecording(h)
    \/ \E h \in Handlers : SRL_AcquireFrameLock(h)
    \/ \E h \in Handlers : SRL_GetLatestFrame(h)
    \/ \E h \in Handlers : SRL_ReadFrame(h)
    \/ \E h \in Handlers : H_StartRet(h)
    \/ \E h \in Handlers : H_StopRecording(h)
    \/ \E h \in Handlers : H_Return(h)

SpecRaw == Init /\ [][NextRaw]_vars

\* ------------------------------------------------------------ the event log
\* The calls of log_event made around the recording commands: the worker's
\* start and stop (inside state_lock), the routes' start and stop followed by
\* their USER_ACTION event (outside state_lock), and log_event itself as its
\* two locked regions, _load_events and _save_events.

\* log_event(event_type, ...): the event is built; _load_events comes next
LogEvent(t, type, then) ==
    /\ ev_count' = ev_count + 1
    /\ ev_pc' = [ev_pc EXCEPT ![t] = [at |-> "load",
                                      ev |-> [type |-> type, n |-> ev_count + 1],
                                      local |-> << >>,
                                      then |-> then,
                                      failed |-> FALSE]]

\* what the caller does after `with worker.state_lock: ...`: a route logs
\* USER_ACTION, the worker's loop goes on
AfterCall(t) == IF t \in Handlers THEN "user_action" ELSE "none"

\* the function returned without calling log_event
E_Return(t) ==
    IF AfterCall(t) = "user_action"
    THEN LogEvent(t, "user_action", "none")
    ELSE UNCHANGED << ev_pc, ev_count >>

\* faulty variant: no `if self.is_recording: return`
E_StartRecording_unguarded(t) ==
    \E got \in BOOLEAN, opened \in BOOLEAN :
        IF got
        THEN /\ is_recording' = TRUE
             /\ video_writer' = {[opened |-> opened]}
             /\ live_writers' = live_writers + 1
             /\ emitted' = Append(emitted, "recording_started")
             /\ state_lock' = t
             /\ LogEvent(t, "recording_started", AfterCall(t))
        ELSE /\ is_recording' = FALSE
             /\ state_lock' = t
             /\ LogEvent(t, "system_error", AfterCall(t))
             /\ UNCHANGED << video_writer, live_writers, emitted >>

\* with self.state_lock: self.start_recording_logic(), up to its log_event:
\* got is whether a frame was to be had (get_latest_frame or _read_frame)
E_StartRecording(t) ==
    IF is_recording
    THEN /\ E_Return(t)
         /\ UNCHANGED << is_recording, video_writer, live_writers, emitted, state_lock >>
    ELSE \E got \in BOOLEAN, opened \in BOOLEAN :
            IF got
            THEN /\ is_recording' = TRUE
                 /\ video_writer' = {[opened |-> opened]}
                 /\ live_writers' = live_writers + 1
                 /\ emitted' = Append(emitted, "recording_started")
                 /\ state_lock' = t
                 /\ LogEvent(t, "recording_started", AfterCall(t))
            ELSE /\ is_recording' = FALSE
                 /\ state_lock' = t
                 /\ LogEvent(t, "system_error", AfterCall(t))
                 /\ UNCHANGED << video_writer, live_writers, emitted >>

\* with self.state_lock: self.stop_recording_logic(), up to its log_event
E_StopRecording(t) ==
    IF ~is_recording
    THEN /\ E_Return(t)
         /\ UNCHANGED << is_recording, video_writer, live_writers, emitted, state_lock >>
    ELSE /\ is_recording' = FALSE
         /\ IF video_writer # {}
            THEN /\ video_writer' = {}
                 /\ live_writers' = live_writers - 1
                 /\ emitted' = Append(emitted, "recording_stopped")
                 /\ state_lock' = t
                 /\ LogEvent(t, "recording_stopped", AfterCall(t))
            ELSE /\ E_Return(t)
                 /\ UNCHANGED << video_writer, live_writers, emitted, state_lock >>

E_Start(t) ==
    /\ ev_pc[t].at = "idle"
    /\ state_lock = FREE
    /\ ev_count + 2 <= MaxLogged
    /\ E_StartRecording(t)
    /\ UNCHANGED << cap_open, output_frame, motion_detection_enabled,
                    static_background, last_motion_time,
                    object_detection_enabled, object_detector,
                    last_detection_time, frame_lock, now, heap, pc, rpc,
                    frame_original, frame_processado, motion_detected_this_frame,
                    current_time, detected_objects, wake_at, h_frame, poll_wait,
                    h_ret, rec_cause, src_ever_open, last_detections,
                    total_detections, detection_counts, last_detection_timestamp,
                    stats_ret, det_history, detection_stats_lock, events_lock,
                    pending, frame_due, raw_ref, encoded, calls, write_log,
                    g_cameras, flask_up, reg_pc, reg_log, events_file, acked,
                    k_pc, cfg_file, cfg_pc, cfg_done, cfg_calls, cfg_read_failed >>

E_Stop(t) ==
    /\ ev_pc[t].at = "idle"
    /\ state_lock = FREE
    /\ ev_count + 2 <= MaxLogged
    /\ E_StopRecording(t)
    /\ UNCHANGED << cap_open, output_frame, motion_detection_enabled,
                    static_background, last_motion_time,
                    object_detection_enabled, object_detector,
                    last_detection_time, frame_lock, now, heap, pc, rpc,
                    frame_original, frame_processado, motion_detected_this_frame,
                    current_time, detected_objects, wake_at, h_frame, poll_wait,
                    h_ret, rec_cause, src_ever_open, last_detections,
                    total_detections, detection_counts, last_detection_timestamp,
                    stats_ret, det_history, detection_stats_lock, events_lock,
                    pending, frame_due, raw_ref, encoded, calls, write_log,
                    g_cameras, flask_up, reg_pc, reg_log, events_file, acked,
                    k_pc, cfg_file, cfg_pc, cfg_done, cfg_calls, cfg_read_failed >>

\* _load_events(), one region of events_lock: the saved list, or [] when the
\* file cannot be read
E_Load(t) ==
    /\ ev_pc[t].at = "load"
    /\ events_lock = FREE
    /\ \E ok \in BOOLEAN :
          ev_pc' = [ev_pc EXCEPT ![t].at = "save",
                                 ![t].local = IF ok THEN events_file ELSE << >>,
                                 ![t].failed = ~ok]
    /\ UNCHANGED << cap_open, output_frame, is_recording, video_writer,
                    motion_detection_enabled, static_background,
                    last_motion_time, object_detection_enabled, object_detector,
                    last_detection_time, state_lock, frame_lock, now, heap, pc,
                    rpc, frame_original, frame_processado,
                    motion_detected_this_frame, current_time, detected_objects,
                    wake_at, h_frame, poll_wait, h_ret, live_writers, rec_cause,
                    src_ever_open, last_detections, total_detections,
                    detection_counts, last_detection_timestamp, stats_ret,
                    det_history, detection_stats_lock, events_lock, pending,
                    frame_due, raw_ref, encoded, calls, write_log, g_cameras,
                    flask_up, reg_pc, reg_log, events_file, emitted, acked,
                    ev_count, k_pc, cfg_file, cfg_pc, cfg_done, cfg_calls,
                    cfg_read_failed >>

\* events[-MAX_EVENTS:]
LastEvents(events) ==
    IF Len(events) > MAX_EVENTS
    THEN SubSeq(events, Len(events) - MAX_EVENTS + 1, Len(events))
    ELSE events

\* what follows the return of log_event in caller t: the `with
\* state_lock` block ends, and a route logs its USER_ACTION
E_AfterLogEvent(t, failed) ==
    /\ state_lock' = IF state_lock = t THEN FREE ELSE state_lock
    /\ IF ev_pc[t].then = "user_action"
       THEN LogEvent(t, "user_action", "none")
       ELSE /\ ev_pc' = [ev_pc EXCEPT ![t].at = "idle",
                                      ![t].local = << >>,
                                      ![t].failed = failed]
            /\ UNCHANGED ev_count

\* faulty variant: a failed save raises into the caller, whose thread ends
E_Save_propagates(t) ==
    /\ ev_pc[t].at = "save"
    /\ events_lock = FREE
    /\ \E ok \in BOOLEAN :
          IF ok
          THEN /\ events_file' = LastEvents(Append(ev_pc[t].local, ev_pc[t].ev))
               /\ acked' = acked \cup {ev_pc[t].ev}
               /\ E_AfterLogEvent(t, ev_pc[t].failed)
          ELSE /\ state_lock' = IF state_lock = t THEN FREE ELSE state_lock
               /\ ev_pc' = [ev_pc EXCEPT ![t].at = "dead"]
               /\ UNCHANGED << events_file, acked, ev_count >>
    /\ UNCHANGED << cap_open, output_frame, is_recording, video_writer,
                    motion_detection_enabled, static_background,
                    last_motion_time, object_detection_enabled, object_detector,
                    last_detection_time, frame_lock, now, heap, pc, rpc,
                    frame_original, frame_processado, motion_detected_this_frame,
                    current_time, detected_objects, wake_at, h_frame, poll_wait,
                    h_ret, live_writers, rec_cause, src_ever_open,
                    last_detections, total_detections, detection_counts,
                    last_detection_timestamp, stats_ret, det_history,
                    detection_stats_lock, events_lock, pending, frame_due,
                    raw_ref, encoded, calls, write_log, g_cameras, flask_up,
                    reg_pc, reg_log, emitted, k_pc, cfg_file, cfg_pc, cfg_done,
                    cfg_calls, cfg_read_failed >>

\* events.append(event); return _save_events(events): the other region of
\* events_lock; the list is written, or the exception is caught and False
\* returned; the callers ignore the result
E_Save(t) ==
    /\ ev_pc[t].at = "save"
    /\ events_lock = FREE
    /\ \E ok \in BOOLEAN :
          /\ IF ok
             THEN /\ events_file' = LastEvents(Append(ev_pc[t].local, ev_pc[t].ev))
                  /\ acked' = acked \cup {ev_pc[t].ev}
             ELSE UNCHANGED << events_file, acked >>
          /\ E_AfterLogEvent(t, ev_pc[t].failed \/ ~ok)
    /\ UNCHANGED << cap_open, output_frame, is_recording, video_writer,
                    motion_detection_enabled, static_background,
                    last_motion_time, object_detection_enabled, object_detector,
                    last_detection_time, frame_lock, now, heap, pc, rpc,
                    frame_original, frame_processado, motion_detected_this_frame,
                    current_time, detected_objects, wake_at, h_frame, poll_wait,
                    h_ret, live_writers, rec_cause, src_ever_open,
                    last_detections, total_detections, detection_counts,
                    last_detection_timestamp, stats_ret, det_history,
                    detection_stats_lock, events_lock, pending, frame_due,
                    raw_ref, encoded, calls, write_log, g_cameras, flask_up,
                    reg_pc, reg_log, emitted, k_pc, cfg_file, cfg_pc, cfg_done,
                    cfg_calls, cfg_read_failed >>

NextEvents ==
    \/ \E t \in LogCallers : E_Start(t)
    \/ \E t \in LogCallers : E_Stop(t)
    \/ \E t \in LogCallers : E_Load(t)
    \/ \E t \in LogCallers : E_Save(t)

SpecEvents == Init /\ [][NextEvents]_vars

\* ------------------------------------ the statistics, statement by statement
\* The region of detection_stats_lock in run, one statement at a time, next
\* to get_detection_stats.

\* sum(detection_counts.values())
RECURSIVE SumCounts(_)
SumCounts(counts) ==
    IF DOMAIN counts = {}
    THEN 0
    ELSE LET c == CHOOSE x \in DOMAIN counts : TRUE
         IN  counts[c] + SumCounts([d \in DOMAIN counts \ {c} |-> counts[d]])

\* with self.detection_stats_lock: last_detections.append(...), pop(0)
K_Begin ==
    /\ k_pc.at = "idle"
    /\ detection_stats_lock = FREE
    /\ Len(det_history) < MaxCounted
    /\ \E found \in StatsDetections \ {<< >>} :
          LET record == [timestamp |-> now,
                         objects   |-> found,
                         count     |-> Len(found)]
          IN  /\ last_detections' = AppendDetection(last_detections, record)
              /\ det_history' = Append(det_history, record)
              /\ k_pc' = [at |-> "total", todo |-> found]
    /\ detection_stats_lock' = "w"
    /\ UNCHANGED << cap_open, output_frame, is_recording, video_writer,
                    motion_detection_enabled, static_background,
                    last_motion_time, object_detection_enabled, object_detector,
                    last_detection_time, state_lock, frame_lock, now, heap, pc,
                    rpc, frame_original, frame_processado,
                    motion_detected_this_frame, current_time, detected_objects,
                    wake_at, h_frame, poll_wait, h_ret, live_writers, rec_cause,
                    src_ever_open, total_detections, detection_counts,
                    last_detection_timestamp, stats_ret, events_lock, pending,
                    frame_due, raw_ref, encoded, calls, write_log, g_cameras,
                    flask_up, reg_pc, reg_log, ev_pc, events_file, emitted,
                    acked, ev_count, cfg_file, cfg_pc, cfg_done, cfg_calls,
                    cfg_read_failed >>

\* self.total_detections += len(detected_objects);
\* self.last_detection_timestamp = current_time
K_AddTotal ==
    /\ k_pc.at = "total"
    /\ total_detections' = total_detections + Len(k_pc.todo)
    /\ last_detection_timestamp' = now
    /\ k_pc' = [k_pc EXCEPT !.at = "count"]
    /\ UNCHANGED << cap_open, output_frame, is_recording, video_writer,
                    motion_detection_enabled, static_background,
                    last_motion_time, object_detection_enabled, object_detector,
                    last_detection_time, state_lock, frame_lock, now, heap, pc,
                    rpc, frame_original, frame_processado,
                    motion_detected_this_frame, current_time, detected_objects,
                    wake_at, h_frame, poll_wait, h_ret, live_writers, rec_cause,
                    src_ever_open, last_detections, detection_counts, stats_ret,
                    det_history, detection_stats_lock, events_lock, pending,
                    frame_due, raw_ref, encoded, calls, write_log, g_cameras,
                    flask_up, reg_pc, reg_log, ev_pc, events_file, emitted,
                    acked, ev_count, cfg_file, cfg_pc, cfg_done, cfg_calls,
                    cfg_read_failed >>

\* one turn of `for obj in detected_objects`
K_CountOne ==
    /\ k_pc.at = "count"
    /\ k_pc.todo # << >>
    /\ detection_counts' = CountClasses(detection_counts, << Head(k_pc.todo) >>)
    /\ k_pc' = [k_pc EXCEPT !.todo = Tail(k_pc.todo)]
    /\ UNCHANGED << cap_open, output_frame, is_recording, video_writer,
                    motion_detection_enabled, static_background,
                    last_motion_time, object_detection_enabled, object_detector,
                    last_detection_time, state_lock, frame_lock, now, heap, pc,
                    rpc, frame_original, frame_processado,
                    motion_detected_this_frame, current_time, detected_objects,
                    wake_at, h_frame, poll_wait, h_ret, live_writers, rec_cause,
                    src_ever_open, last_detections, total_detections,
                    last_detection_timestamp, stats_ret, det_history,
                    detection_stats_lock, events_lock, pending, frame_due,
                    raw_ref, encoded, calls, write_log, g_cameras, flask_up,
                    reg_pc, reg_log, ev_pc, events_file, emitted, acked,
                    ev_count, cfg_file, cfg_pc, cfg_done, cfg_calls,
                    cfg_read_failed >>

\* the end of the with block
K_Release ==
    /\ k_pc.at = "count"
    /\ k_pc.todo = << >>
    /\ detection_stats_lock' = FREE
    /\ k_pc' = [at |-> "idle", todo |-> << >>]
    /\ UNCHANGED << cap_open, output_frame, is_recording, video_writer,
                    motion_detection_enabled, static_background,
                    last_motion_time, object_detection_enabled, object_detector,
                    last_detection_time, state_lock, frame_lock, now, heap, pc,
                    rpc, frame_original, frame_processado,
                    motion_detected_this_frame, current_time, detected_objects,
                    wake_at, h_frame, poll_wait, h_ret, live_writers, rec_cause,
                    src_ever_open, last_detections, total_detections,
                    detection_counts, last_detection_timestamp, stats_ret,
                    det_history, events_lock, pending, frame_due, raw_ref,
                    encoded, calls, write_log, g_cameras, flask_up, reg_pc,
                    reg_log, ev_pc, events_file, emitted, acked, ev_count,
                    cfg_file, cfg_pc, cfg_done, cfg_calls, cfg_read_failed >>

\* faulty variant: the statistics are read without the lock
Q_GetDetectionStats_unlocked ==
    H_GetDetectionStats

\* get_detection_stats: with self.detection_stats_lock: return {...}
Q_GetDetectionStats ==
    /\ detection_stats_lock = FREE
    /\ H_GetDetectionStats

NextCounts ==
    \/ K_Begin
    \/ K_AddTotal
    \/ K_CountOne
    \/ K_Release
    \/ Q_GetDetectionStats
    \/ H_StatsReturn

SpecCounts == Init /\ [][NextCounts]_vars

\* ---------------------------------------------------- camera configuration
\* camera_manager.add_camera, remove_camera and update_camera called by the
\* request threads of the threaded Flask server: each is load_cameras_config
\* (one region of config_lock), a change of the dict it returned, and
\* save_cameras_config (another region of config_lock).

\* cameras[cam_id] = {...}
PutCamera(cameras, cam_id, value) ==
    [c \in DOMAIN cameras \cup {cam_id} |-> IF c = cam_id THEN value ELSE cameras[c]]

\* del cameras[cam_id]
DelCamera(cameras, cam_id) ==
    [c \in DOMAIN cameras \ {cam_id} |-> cameras[c]]

\* what a call does to the dict it loaded
ApplyCall(cameras, op, cam_id) ==
    CASE op = "add"    -> PutCamera(cameras, cam_id, "added")
      [] op = "remove" -> DelCamera(cameras, cam_id)
      [] op = "update" -> PutCamera(cameras, cam_id, "updated")

\* `if cam_id in cameras: return False` of add_camera, `if cam_id not in
\* cameras: return False` of the other two
CallAccepted(cameras, op, cam_id) ==
    IF op = "add" THEN cam_id \notin DOMAIN cameras ELSE cam_id \in DOMAIN cameras

\* a request arrives: routes.api_add_camera, api_remove_camera, api_update_camera
M_Call(t) ==
    /\ cfg_pc[t].at = "idle"
    /\ cfg_calls < MaxConfigCalls
    /\ \E op \in {"add", "remove", "update"}, cam_id \in ConfigIds :
          cfg_pc' = [cfg_pc EXCEPT ![t] = [at |-> "load", op |-> op, id |-> cam_id,
                                           local |-> EmptyConfig]]
    /\ cfg_calls' = cfg_calls + 1
    /\ UNCHANGED << cap_open, output_frame, is_recording, video_writer,
                    motion_detection_enabled, static_background,
                    last_motion_time, object_detection_enabled, object_detector,
                    last_detection_time, state_lock, frame_lock, now, heap, pc,
                    rpc, frame_original, frame_processado,
                    motion_detected_this_frame, current_time, detected_objects,
                    wake_at, h_frame, poll_wait, h_ret, live_writers, rec_cause,
                    src_ever_open, last_detections, total_detections,
                    detection_counts, last_detection_timestamp, stats_ret,
                    det_history, detection_stats_lock, events_lock, pending,
                    frame_due, raw_ref, encoded, calls, write_log, g_cameras,
                    flask_up, reg_pc, reg_log, ev_pc, events_file, emitted,
                    acked, ev_count, k_pc, cfg_file, cfg_done, cfg_read_failed >>

\* cameras = load_cameras_config(): the default (written to the file when
\* that works) if there is no file, the file, or {} when it cannot be read;
\* then the test of cam_id and the change of the dict
M_Load(t) ==
    /\ cfg_pc[t].at = "load"
    /\ \E ok \in BOOLEAN :
          LET cameras == IF ~cfg_file.exists THEN DefaultConfig
                         ELSE IF ok THEN cfg_file.cams
                         ELSE EmptyConfig
          IN  /\ cfg_file' = IF ~cfg_file.exists /\ ok
                             THEN [exists |-> TRUE, cams |-> DefaultConfig]
                             ELSE cfg_file
              /\ cfg_read_failed' = (cfg_read_failed \/ (cfg_file.exists /\ ~ok))
              /\ cfg_pc' = [cfg_pc EXCEPT ![t] =
                               IF CallAccepted(cameras, cfg_pc[t].op, cfg_pc[t].id)
                               THEN [@ EXCEPT !.at = "save",
                                              !.local = ApplyCall(cameras, cfg_pc[t].op, cfg_pc[t].id)]
                               ELSE IdleConfigCaller]
    /\ UNCHANGED << cap_open, output_frame, is_recording, video_writer,
                    motion_detection_enabled, static_background,
                    last_motion_time, object_detection_enabled, object_detector,
                    last_detection_time, state_lock, frame_lock, now, heap, pc,
                    rpc, frame_original, frame_processado,
                    motion_detected_this_frame, current_time, detected_objects,
                    wake_at, h_frame, poll_wait, h_ret, live_writers, rec_cause,
                    src_ever_open, last_detections, total_detections,
                    detection_counts, last_detection_timestamp, stats_ret,
                    det_history, detection_stats_lock, events_lock, pending,
                    frame_due, raw_ref, encoded, calls, write_log, g_cameras,
                    flask_up, reg_pc, reg_log, ev_pc, events_file, emitted,
                    acked, ev_count, k_pc, cfg_done, cfg_calls >>

\* save_cameras_config(cameras): the file is the dict of this caller and the
\* call reports success, or the write fails and it reports an error
M_Save(t) ==
    /\ cfg_pc[t].at = "save"
    /\ \E ok \in BOOLEAN :
          IF ok
          THEN /\ cfg_file' = [exists |-> TRUE, cams |-> cfg_pc[t].local]
               /\ cfg_done' = Append(cfg_done, [op |-> cfg_pc[t].op, id |-> cfg_pc[t].id])
          ELSE UNCHANGED << cfg_file, cfg_done >>
    /\ cfg_pc' = [cfg_pc EXCEPT ![t] = IdleConfigCaller]
    /\ UNCHANGED << cap_open, output_frame, is_recording, video_writer,
                    motion_detection_enabled, static_background,
                    last_motion_time, object_detection_enabled, object_detector,
                    last_detection_time, state_lock, frame_lock, now, heap, pc,
                    rpc, frame_original, frame_processado,
                    motion_detected_this_frame, current_time, detected_objects,
                    wake_at, h_frame, poll_wait, h_ret, live_writers, rec_cause,
                    src_ever_open, last_detections, total_detections,
                    detection_counts, last_detection_timestamp, stats_ret,
                    det_history, detection_stats_lock, events_lock, pending,
                    frame_due, raw_ref, encoded, calls, write_log, g_cameras,
                    flask_up, reg_pc, reg_log, ev_pc, events_file, emitted,
                    acked, ev_count, k_pc, cfg_calls, cfg_read_failed >>

NextConfig ==
    \/ \E t \in ConfigCallers : M_Call(t)
    \/ \E t \in ConfigCallers : M_Load(t)
    \/ \E t \in ConfigCallers : M_Save(t)

SpecConfig == Init /\ [][NextConfig]_vars

\* the configuration that reflects every call of a sequence of successful
\* calls
RECURSIVE ConfigAfter(_)
ConfigAfter(done) ==
    IF done = << >>
    THEN DefaultConfig
    ELSE LET last == done[Len(done)]
         IN  ApplyCall(ConfigAfter(SubSeq(done, 1, Len(done) - 1)), last.op, last.id)

\* ================================================================ properties
\* a step taken by the worker thread
WorkerStep == pc'["w"] # pc["w"]

\* the positions of the worker inside the while True loop of run()
WorkerLoopPcs ==
    {"top", "nocam_pub", "sleep5", "rf_pub", "sleep1", "mflag", "bg", "motion", "motion_ret",
     "objdet", "obj_lock", "obj_ret", "write", "pub", "srl_lock", "srl_copy", "srl_read"}

\* --- C1
\* C1: whenever the state lock is not held, the worker is recording exactly
\* when it holds an encoder; and at no time do two encoders exist that have
\* not been released.
C1_RecordingIffEncoder ==
    /\ (state_lock = FREE => (is_recording <=> video_writer # {}))
    /\ live_writers <= 1
    /\ live_writers = Cardinality(video_writer)

\* a recording started by motion is running, its encoder open, the lock free
C1_Witness ==
    /\ state_lock = FREE
    /\ is_recording
    /\ rec_cause = "motion"
    /\ video_writer = {[opened |-> TRUE]}
    /\ live_writers = 1

\* --- C2
\* C2: in an iteration of the worker that reaches the recording decision with
\* a motion-triggered recording running and no motion in its frame, the
\* recording is stopped exactly when the time since the last motion is
\* strictly more than MOTION_COOLDOWN seconds; and the worker stops a
\* motion-triggered recording in no other iteration.
C2_CooldownLaw ==
    [][ /\ ( /\ pc["w"] = "motion"
             /\ WorkerStep
             /\ is_recording
             /\ rec_cause = "motion"
             /\ ~motion_detected_this_frame )
           => ( ~is_recording' <=>
                  (now - last_motion_time) * SecondsPerTick > MOTION_COOLDOWN )
        /\ ( /\ WorkerStep
             /\ rec_cause = "motion"
             /\ video_writer # {}
             /\ video_writer' = {} )
           => ( /\ pc["w"] = "motion"
                /\ ~motion_detected_this_frame
                /\ (now - last_motion_time) * SecondsPerTick > MOTION_COOLDOWN )
      ]_vars

\* the worker is at the decision, the last motion (seen after the start of
\* the run) more than MOTION_COOLDOWN seconds ago, a motion recording running
C2_Witness ==
    /\ pc["w"] = "motion"
    /\ state_lock = FREE
    /\ is_recording
    /\ rec_cause = "motion"
    /\ video_writer # {}
    /\ ~motion_detected_this_frame
    /\ last_motion_time >= StartTime
    /\ (now - last_motion_time) * SecondsPerTick > MOTION_COOLDOWN

C4_StopIdempotent ==
    [][ \A h \in Handlers :
          ( /\ pc[h] = "idle"
            /\ h_ret'[h].op = "stop" )
          => ( /\ ~is_recording'
               /\ video_writer' = {}
               /\ live_writers' = 0
               /\ state_lock' = FREE
               /\ (~is_recording =>
                      UNCHANGED << workerFields, live_writers, rec_cause, heap >>)
               /\ (is_recording =>
                      live_writers' = live_writers - Cardinality(video_writer)) )
      ]_vars

\* a stop command has found the worker not recording
C4_Witness ==
    \E h \in Handlers :
        /\ pc[h] = "ret"
        /\ h_ret[h].op = "stop"
        /\ ~h_ret[h].found_recording
        /\ ~is_recording
        /\ video_writer = {}

\* --- C5
\* C5: the toggle command that disarms motion detection while the worker is
\* recording leaves, at the end of its critical section (after which nothing
\* but the return follows), the worker not recording and its encoder released.
C5_DisarmStopsRecording ==
    [][ \A h \in Handlers :
          ( /\ pc[h] = "idle"
            /\ h_ret'[h].op = "toggle_motion"
            /\ motion_detection_enabled
            /\ is_recording )
          => ( /\ ~motion_detection_enabled'
               /\ ~is_recording'
               /\ video_writer' = {}
               /\ live_writers' = 0
               /\ state_lock' = FREE
               /\ pc'[h] = "ret" )
      ]_vars

\* the toggle has disarmed the detector and found a recording running
C5_Witness ==
    \E h \in Handlers :
        /\ pc[h] = "ret"
        /\ h_ret[h].op = "toggle_motion"
        /\ ~h_ret[h].enabled
        /\ h_ret[h].found_recording
        /\ ~is_recording
        /\ video_writer = {}

C8_ObjectStartsRecording ==
    [][ /\ ( pc["w"] = "obj_lock" /\ WorkerStep /\ ~is_recording )
           => ( /\ is_recording'
                /\ rec_cause' = "object"
                /\ pc'["w"] = "srl_lock"
                /\ rpc'["w"] = "obj_ret" )
        /\ ( pc["w"] = "obj_ret" /\ WorkerStep /\ output_frame # NoRef )
           => ( /\ is_recording'
                /\ video_writer' # {}
                /\ rec_cause' = "object"
                /\ pc'["w"] = "write" )
        /\ ( pc["w"] = "srl_read" /\ rpc["w"] = "obj_ret" /\ WorkerStep )
           => ( /\ output_frame = NoRef
                /\ pc'["w"] = "obj_ret"
                /\ (is_recording' <=> video_writer' # {})
                /\ (~cap_open => ~is_recording') )
      ]_vars

\* with motion detection off, an allow-listed detection has started a recording
C8_Witness ==
    /\ pc["w"] = "obj_ret"
    /\ ~motion_detection_enabled
    /\ is_recording
    /\ rec_cause = "object"
    /\ video_writer # {}
    /\ output_frame # NoRef

\* C8 as stated: whenever the worker, not recording, acts on an allow-listed
\* detection, it is recording when that block of the iteration ends.
C8_AsStated ==
    [][ ( pc["w"] = "obj_ret" /\ WorkerStep ) => is_recording' ]_vars

\* --- C9
\* C9: the worker never leaves its loop: whatever has failed (source closed,
\* read, inference, opening the encoder, writing to it), the worker is at a
\* position of the loop, and it begins another iteration again and again.
C9_WorkerNeverExits ==
    /\ [](pc["w"] \in WorkerLoopPcs)
    /\ []<>(pc["w"] = "top")

\* the worker starts a new iteration after a read failure (the placeholder is
\* published though the source is open) with an encoder that failed to open
C9_Witness ==
    /\ pc["w"] = "top"
    /\ cap_open
    /\ output_frame # NoRef
    /\ heap[output_frame].kind = "nocam"
    /\ is_recording
    /\ video_writer = {[opened |-> FALSE]}

\* --- C10
\* C10: the iteration that finds no background (the first one after arming)
\* stores its blurred grey frame as the background and ends there: no motion
\* is flagged, the recording state and the motion timestamp are untouched.
\* Afterwards no step of the worker changes the background; it changes only
\* when a toggle arms the detector and clears it.
C10_BackgroundCalibration ==
    [][ /\ ( pc["w"] = "bg" /\ WorkerStep /\ static_background = None )
           => ( /\ static_background' = GrayBlur(frame_original)
                /\ static_background' # None
                /\ pc'["w"] = "top"
                /\ ~motion_detected_this_frame'
                /\ UNCHANGED << is_recording, video_writer, live_writers,
                                last_motion_time, rec_cause, output_frame >> )
        /\ ( WorkerStep /\ static_background # None )
           => static_background' = static_background
        /\ ( static_background' # static_background /\ ~WorkerStep )
           => ( /\ static_background' = None
                /\ motion_detection_enabled'
                /\ ~motion_detection_enabled )
      ]_vars

\* a later frame differs from the background (motion is flagged) and the
\* background is still the first frame
C10_Witness ==
    /\ pc["w"] = "motion"
    /\ motion_detected_this_frame
    /\ static_background # None
    /\ frame_original # None
    /\ GrayBlur(frame_original) # static_background

\* --- C11
\* C11 as stated: when start_recording_logic returns without an encoder that
\* opened (the open failed, or no frame was there to size it), the worker is
\* not recording and holds no encoder.
C11_AsStated ==
    [][ \A t \in Threads :
          ( /\ pc[t] \in {"srl_copy", "srl_read"}
            /\ pc'[t] = rpc[t]
            /\ \A writer \in video_writer' : ~writer.opened )
          => ( /\ ~is_recording'
               /\ video_writer' = {} )
      ]_vars

\* --- C12
\* C12 as stated: when release() closes the frame source the worker is not
\* recording and holds no encoder (the recording was stopped first), and
\* when release() returns the worker holds no encoder.
C12_AsStated ==
    [][ /\ ( pc["m"] \in {"serving", "rel_cap"} /\ cap_open /\ ~cap_open' )
           => ( ~is_recording /\ video_writer = {} )
        /\ ( pc["m"] # "exited" /\ pc'["m"] = "exited" )
           => video_writer' = {}
      ]_vars

\* --- C13
\* C13: after every step last_detections holds at most 10 records, which are
\* the latest records appended, in the order they came; total_detections
\* and the count of every class never decrease (and no class is forgotten).
C13_DetectionStats ==
    [][ /\ Len(last_detections') <= 10
        /\ last_detections' = LastN(det_history', 10)
        /\ total_detections' >= total_detections
        /\ \A c \in DOMAIN detection_counts :
              /\ c \in DOMAIN detection_counts'
              /\ detection_counts'[c] >= detection_counts[c]
      ]_vars

\* the ring has overflowed: the first record is gone
C13_Witness ==
    /\ Len(det_history) > 10
    /\ Len(last_detections) = 10
    /\ last_detections[1] = det_history[Len(det_history) - 9]
    /\ last_detections[1] # det_history[1]
    /\ DOMAIN detection_counts = {"car", "person"}
    /\ total_detections > Len(det_history)

\* --- C14
\* C14: a toggle_motion_detection call flips motion_detection_enabled and
\* answers with the new value; when it answers enabled = true the background
\* is None at the end of its critical section, and stays None until the
\* worker calibrates it from the frame it is processing; nothing but a
\* toggle changes the flag, so two toggles in a row restore it.
C14_ToggleMotion ==
    [][ /\ \A h \in Handlers :
              ( pc[h] = "idle" /\ pc'[h] = "ret" /\ h_ret'[h].op = "toggle_motion" )
              => ( /\ motion_detection_enabled' = ~motion_detection_enabled
                   /\ h_ret'[h].enabled = motion_detection_enabled'
                   /\ ( h_ret'[h].enabled => static_background' = None ) )
        /\ ( motion_detection_enabled' # motion_detection_enabled )
              => \E h \in Handlers :
                    pc[h] = "idle" /\ pc'[h] = "ret" /\ h_ret'[h].op = "toggle_motion"
        /\ ( static_background = None /\ static_background' # None )
              => ( /\ pc["w"] = "bg"
                   /\ pc'["w"] = "top"
                   /\ static_background' = GrayBlur(frame_original) )
      ]_vars

\* re-armed after motion had been seen: the calibrated background is gone
C14_Witness ==
    \E h \in Handlers :
        /\ pc[h] = "ret"
        /\ h_ret[h].op = "toggle_motion"
        /\ h_ret[h].enabled
        /\ motion_detection_enabled
        /\ static_background = None
        /\ last_motion_time > 0

\* --- C15
\* C15 as stated: no thread holds frame_lock and state_lock of the worker
\* at the same time.
C15_AsStated ==
    \A t \in Threads : ~( state_lock = t /\ frame_lock = t )

\* --- C16
\* C16 as stated: while motion detection is disarmed and the answer of the
\* toggle that disarmed it has been sent, the worker starts no recording
\* because of motion.
C16_AsStated ==
    [][ ~( /\ ~motion_detection_enabled
           /\ \A h \in Handlers : h_ret[h].op # "toggle_motion"
           /\ rec_cause # "motion"
           /\ rec_cause' = "motion"
           /\ is_recording' )
      ]_vars

\* --- C17
\* C17: no cyclic wait is reachable: following "waits for the holder of the
\* lock it wants" from any thread ends, within as many links as there are
\* threads, at a thread that is not blocked.  A thread acquiring a lock it
\* holds would wait for itself, a cycle of one.
C17_NoCyclicWait ==
    \A t \in LockThreads :
        WaitChain(t, Cardinality(LockThreads)) = "nobody"

\* a handler holds state_lock and events_lock together while the worker
\* is blocked on state_lock and a puller holds frame_lock
C17_Witness ==
    \E h \in LockHandlers, v \in LockPullers :
        /\ state_lock = h
        /\ events_lock = h
        /\ frame_lock = v
        /\ WaitsFor("w") = h
        /\ WaitsFor("m") = h

\* --- C18
\* C18 as stated: the cooldown check of the worker never stops a recording
\* that a manual start command started.
C18_AsStated ==
    [][ ~( /\ pc["w"] = "motion"
           /\ WorkerStep
           /\ is_recording
           /\ rec_cause = "manual"
           /\ ~is_recording' )
      ]_vars

\* --- C19
\* C19 as stated, for the end of an iteration: when an iteration of the
\* worker ends, output_frame is the frame object that iteration built and
\* published, which is the frame it read (annotated) or, when it read none,
\* the placeholder.
C19_AsStated ==
    [][ ( WorkerStep /\ pc'["w"] = "top" )
        => ( /\ output_frame' # NoRef
             /\ output_frame' = frame_processado'
             /\ heap'[output_frame'].kind =
                   IF frame_original # None THEN "camera" ELSE "nocam" )
      ]_vars

\* --- C20
\* C20 as stated: no iteration of the worker ends owing its frame to the
\* encoder, that is, having read the frame while the worker was recording
\* with an open encoder, with that recording never stopped since, and
\* without having passed the frame to video_writer.write.
C20_AsStated ==
    [][ ( WorkerStep /\ pc'["w"] = "top" ) => ~frame_due ]_vars

\* --- C21
\* C21: every frame passed to the encoder is the frame read in the iteration
\* that writes it, as captured: it carries no motion rectangle and no
\* detection overlay.
C21_RawFrameWritten ==
    [][ Len(encoded') > Len(encoded)
        => /\ Len(encoded') = Len(encoded) + 1
           /\ encoded'[Len(encoded')].kind = "camera"
           /\ encoded'[Len(encoded')].marks = {}
           /\ encoded'[Len(encoded')].pixels = frame_original
           /\ \A i \in 1 .. Len(encoded) : encoded'[i] = encoded[i]
      ]_vars

\* a frame has been written while the annotated copy carries an overlay
C21_Witness ==
    /\ pc["w"] = "r_pub"
    /\ encoded # << >>
    /\ encoded[Len(encoded)] = RawFrame(frame_original)
    /\ OVERLAY \in heap[frame_processado].marks
    /\ heap[raw_ref].marks = {}

\* --- C22
\* C22 as stated: last_motion_time changes only in the recording decision of
\* an iteration of the worker that detected motion in its frame.
C22_AsStated ==
    [][ last_motion_time' # last_motion_time
        => ( /\ WorkerStep
             /\ pc["w"] = "motion"
             /\ motion_detected_this_frame )
      ]_vars

\* --- C23
\* C23 as stated: once release() has returned the source stays closed and
\* the worker stays without a recording and without an encoder.
C23_AsStated ==
    pc["m"] = "exited"
    => ( /\ ~cap_open
         /\ ~is_recording
         /\ video_writer = {} )

\* C24: is_recording goes from false to true only in a step of the manual
\* start command, in the motion branch of an iteration that detected motion,
\* or in the object branch of an iteration whose detections include a class of
\* the allow-list.
C24_RecordingStarts ==
    [][ (~is_recording /\ is_recording')
        => \/ \E h \in Handlers : pc[h] = "idle" /\ rpc'[h] = "start_ret"
           \/ /\ pc["w"] = "motion"
              /\ motion_detected_this_frame
              /\ rpc'["w"] = "motion_ret"
           \/ /\ pc["w"] = "obj_lock"
              /\ \E i \in DOMAIN detected_objects :
                    detected_objects[i] \in AUTO_RECORD_ON_OBJECTS
              /\ rpc'["w"] = "obj_ret"
      ]_vars

C24_Witness ==
    /\ is_recording
    /\ rec_cause = "object"
    /\ pc["w"] = "srl_lock"
    /\ ~motion_detected_this_frame
    /\ detected_objects = <<"person">>

\* C25 as stated: static_background is None only from a (re)arming of motion
\* detection to the first frame processed after it, so a worker that was never
\* armed holds a frame, and only an arming empties the background.
C25_AsStated ==
    /\ static_background # None
    /\ [][ ( static_background # None /\ static_background' = None )
           => ( ~motion_detection_enabled /\ motion_detection_enabled' ) ]_vars

\* C25, amended: static_background is None from construction and from each
\* (re)arming until the next calibration frame, a frame whose iteration read
\* motion detection armed; disarming leaves the background as it is, so it
\* can stay None while frames are processed with motion detection off.
C25_BackgroundNone ==
    /\ ( static_background = None /\ ~motion_detection_enabled )
    /\ [][ /\ ( static_background # None /\ static_background' = None )
              => ( ~motion_detection_enabled /\ motion_detection_enabled' )
           /\ ( motion_detection_enabled /\ ~motion_detection_enabled' )
              => static_background' = static_background
           /\ ( static_background = None /\ static_background' # None )
              => ( pc["w"] = "bg" /\ static_background' = GrayBlur(frame_original) )
           /\ ( pc["w"] = "bg" /\ pc'["w"] # "bg" )
              => static_background' # None
         ]_vars

\* a frame was processed and published with the background still None
C25_Witness ==
    /\ static_background = None
    /\ ~motion_detection_enabled
    /\ pc["w"] = "top"
    /\ output_frame # NoRef
    /\ heap[output_frame].kind = "camera"

C29_AsStated ==
    /\ calls # << >> => object_detector
    /\ \A i \in 2 .. Len(calls) :
          (calls[i].at - calls[i - 1].at) * SecondsPerTick * DET_INTERVAL_DEN
             >= DET_INTERVAL_NUM

\* C30 as stated: after a call of the detector that failed, no call is made
\* before detection_interval has elapsed again.
C30_AsStated ==
    \A i \in 1 .. Len(calls) - 1 :
        calls[i].raised
        => (calls[i + 1].at - calls[i].at) * SecondsPerTick * DET_INTERVAL_DEN
              >= DET_INTERVAL_NUM

\* C26: a step that changes is_recording, video_writer,
\* motion_detection_enabled, static_background or last_motion_time is a step
\* of a thread that holds state_lock (it held it before the step, or took it
\* free for the step); a command or release() holds the lock only inside the
\* start_recording_logic call of its `with` block; and while one of them
\* holds it the worker passes none of the locked sections of an iteration.
C26_WritesUnderStateLock ==
    [][ /\ ( << is_recording, video_writer, motion_detection_enabled,
                static_background, last_motion_time >>' #
             << is_recording, video_writer, motion_detection_enabled,
                static_background, last_motion_time >> )
           => \E t \in Threads :
                 /\ pc'[t] # pc[t]
                 /\ state_lock \in {FREE, t}
                 /\ state_lock' \in {FREE, t}
        /\ \A t \in Handlers \cup {"m"} :
              state_lock' = t
              => /\ pc'[t] \in {"srl_lock", "srl_copy", "srl_read", "start_ret"}
                 /\ rpc'[t] \in {"start_ret", "none"}
        /\ ( state_lock \in Handlers \cup {"m"} /\ WorkerStep )
           => ~( pc["w"] \in {"mflag", "bg", "motion", "obj_lock", "write"} )
      ]_vars

\* a manual start holds state_lock inside start_recording_logic, is_recording
\* already written, while the worker has a frame and waits for the lock
C26_Witness ==
    \E h \in Handlers :
        /\ state_lock = h
        /\ pc[h] = "srl_copy"
        /\ is_recording
        /\ rec_cause = "manual"
        /\ pc["w"] = "mflag"
        /\ motion_detection_enabled

\* --- C31
\* C31: a call of video_writer.write that raises cv2.error changes neither
\* is_recording nor the encoder nor what was encoded; the iteration goes on
\* to publish its annotated frame; and an iteration that finds the worker
\* recording with an encoder calls write whatever became of earlier calls.
C31_WriteErrorSwallowed ==
    [][ /\ ( Len(write_log') > Len(write_log) /\ write_log'[Len(write_log')] )
           => /\ pc["w"] = "r_write"
              /\ pc'["w"] = "r_pub"
              /\ UNCHANGED << is_recording, video_writer, live_writers, encoded,
                              frame_processado, heap >>
        /\ ( pc["w"] = "r_pub" /\ WorkerStep )
           => /\ pc'["w"] = "top"
              /\ output_frame' # NoRef
              /\ heap'[output_frame'] = heap[frame_processado]
        /\ ( pc["w"] = "r_write" /\ WorkerStep /\ is_recording /\ video_writer # {} )
           => Len(write_log') = Len(write_log) + 1
      ]_vars

\* a write raised, the worker kept recording with the same encoder, and the
\* write of the next iteration went through
C31_Witness ==
    /\ Len(write_log) >= 2
    /\ write_log[1]
    /\ ~write_log[2]
    /\ Len(encoded) = 1
    /\ is_recording
    /\ video_writer # {}
    /\ live_writers = 1
    /\ pc["w"] = "top"
    /\ output_frame # NoRef

\* --- C32
\* C32 as stated: every insert, lookup and delete on the registry is made by
\* a thread that holds a lock other than a worker's state and frame locks.
C32_AsStated ==
    \A r \in reg_log : r.held \ {"state", "frame"} # {}

\* --- C33
\* C33: a stream puller holds frame_lock only inside get_latest_frame, never
\* while it encodes or yields the frame it was given or while it sleeps, so
\* whenever the worker is about to publish, the lock is free or its holder is
\* inside the copy; a puller that got None sleeps 100 ms and calls
\* get_latest_frame again; a puller opened for an unknown camera id ends and
\* never holds a frame.
C33_PullerLock ==
    /\ [](\A v \in Viewers :
            /\ frame_lock = v => pc[v] = "gf_copy"
            /\ pc[v] = "ended" => h_frame[v] = NoRef
            /\ pc[v] = "gf_sleep" <=> poll_wait[v] = POLL_SLEEP_MS)
    /\ []( ( pc["w"] \in {"nocam_pub", "rf_pub", "pub"} /\ frame_lock # FREE )
           => \E v \in Viewers : frame_lock = v /\ pc[v] = "gf_copy" )
    /\ [][ \A v \in Viewers :
             /\ ( pc[v] = "gf_copy" /\ pc'[v] # "gf_copy" )
                  => /\ frame_lock' = FREE
                     /\ IF output_frame = NoRef
                        THEN pc'[v] = "gf_sleep" /\ h_frame'[v] = NoRef
                        ELSE pc'[v] = "idle" /\ h_frame'[v] # NoRef
             /\ ( pc[v] = "gf_sleep" /\ pc'[v] # "gf_sleep" )
                  => pc'[v] = "idle" /\ h_frame'[v] = NoRef
             /\ ( pc[v] = "idle" /\ pc'[v] # "idle" )
                  => pc'[v] = "gf_copy" /\ frame_lock' = v
             /\ pc[v] = "ended" => pc'[v] = "ended"
             /\ ( pc[v] = "closed" /\ pc'[v] # "closed" )
                  => pc'[v] \in {"idle", "ended"} /\ UNCHANGED << frame_lock, h_frame >>
       ]_vars

\* a puller is busy with the frame it was given (encoding, yielding to a
\* slow client) while the worker is about to publish the next frame and finds
\* the lock free
C33_Witness ==
    \E v \in Viewers :
        /\ pc[v] = "idle"
        /\ h_frame[v] # NoRef
        /\ pc["w"] = "pub"
        /\ output_frame # NoRef
        /\ frame_lock = FREE

\* --- C34
\* C34: a start_recording_logic that finds the 'camera unavailable'
\* placeholder in the shared buffer returns with the worker not recording and
\* with no encoder opened.
C34_AsStated ==
    [][ \A t \in Threads :
          ( /\ pc[t] = "srl_copy"
            /\ pc'[t] # "srl_copy"
            /\ output_frame # NoRef
            /\ heap[output_frame].kind = "nocam" )
          => /\ ~is_recording'
             /\ video_writer' = {}
             /\ live_writers' = live_writers ]_vars

\* --- C35
\* C35: no thread other than the worker's own reads a frame from the frame
\* source: no request handler takes the step of _read_frame that calls
\* cap.read().
C35_AsStated ==
    [][ \A t \in Threads \ {"w"} :
          ~( /\ pc[t] = "srl_read"
             /\ pc'[t] # "srl_read"
             /\ cap_open ) ]_vars

\* --- C36
\* C36: the recording events passed to log_event for the camera alternate,
\* recording_started first; an encoder is open exactly while the last event
\* is a start, so every encoder opened is released by the stop that follows
\* and no stop is emitted without an unmatched start before it.
C36_EventsAlternate ==
    /\ \A i \in 1..Len(emitted) :
          emitted[i] = IF i % 2 = 1 THEN "recording_started" ELSE "recording_stopped"
    /\ live_writers = Len(emitted) % 2
    /\ (video_writer # {}) <=> (Len(emitted) % 2 = 1)
    /\ (is_recording /\ state_lock = FREE) => video_writer # {}

\* started, stopped and started again, by different threads
C36_Witness ==
    /\ Len(emitted) = 3
    /\ video_writer # {}
    /\ is_recording
    /\ \E e1, e2 \in acked :
          /\ e1.type = "recording_started"
          /\ e2.type = "recording_stopped"
          /\ e1.n < e2.n

\* --- C37
\* C37: a log_event whose load or save of the log fails returns to its
\* caller: no step of log_event changes is_recording or the encoder, whether
\* it failed or not, the caller's thread goes on (state_lock released, the
\* next call can be made), and the event is simply not saved.
C37_SinkFailureContained ==
    [][ \A t \in LogCallers :
          ( ev_pc[t].at \in {"load", "save"} /\ ev_pc'[t] # ev_pc[t] )
          => /\ UNCHANGED << is_recording, video_writer, live_writers >>
             /\ ev_pc'[t].at \in {"save", "load", "idle"}
             /\ ( ev_pc[t].at = "save" => state_lock' # t )
      ]_vars

\* the worker's log of recording_started failed: it is recording with its
\* encoder, back in its loop, and the event is not in the log
C37_Witness ==
    /\ ev_pc["w"].at = "idle"
    /\ ev_pc["w"].failed
    /\ ev_pc["w"].ev.type = "recording_started"
    /\ ev_pc["w"].ev \notin acked
    /\ is_recording
    /\ video_writer # {}
    /\ state_lock = FREE

\* --- C39
\* C39: every event for which log_event returned True is in the saved log
\* (MAX_EVENTS is never reached here, and nothing clears the log).
C39_AsStated ==
    \A e \in acked : \E i \in 1..Len(events_file) : events_file[i] = e

\* --- C38
\* C38: whenever detection_stats_lock is free, total_detections is the sum
\* of the values of detection_counts; and the total in a result of
\* get_detection_stats is the sum of the per-class counts in the same result.
C38_TotalIsSum ==
    /\ detection_stats_lock = FREE => total_detections = SumCounts(detection_counts)
    /\ stats_ret # NoStats =>
          stats_ret.total_detections = SumCounts(stats_ret.detection_counts)

\* a reader holds a result taken after some detections while the worker,
\* inside the lock, has added to the total and not yet to the counts
C38_Witness ==
    /\ stats_ret # NoStats
    /\ stats_ret.total_detections >= 3
    /\ DOMAIN stats_ret.detection_counts = {"car", "person"}
    /\ detection_stats_lock = "w"
    /\ k_pc.at = "count"
    /\ total_detections # SumCounts(detection_counts)

\* --- C40
\* C40: while no read of the file has failed, the saved configuration is the
\* one that reflects every add_camera, remove_camera and update_camera call
\* that reported success; and no two add_camera calls of the same id report
\* success without a successful remove_camera of that id between them.
C40_AsStated ==
    /\ ( cfg_file.exists /\ ~cfg_read_failed ) => cfg_file.cams = ConfigAfter(cfg_done)
    /\ \A i, j \in 1..Len(cfg_done) :
          ( /\ i < j
            /\ cfg_done[i].op = "add"
            /\ cfg_done[j].op = "add"
            /\ cfg_done[i].id = cfg_done[j].id )
          => \E k \in (i + 1)..(j - 1) :
                cfg_done[k].op = "remove" /\ cfg_done[k].id = cfg_done[i].id

====
